---- MODULE Spec2Model ----
(***************************************************************************)
(* Model of ProcessppAA (pyjetty/alice_analysis/process/user/ml/           *)
(* process_ppAA.py): the event loop, background mixing, constituent        *)
(* subtraction, jet finding, jet matching and the accumulation of the      *)
(* per-jet output series.                                                  *)
(*                                                                         *)
(* Units.  Transverse momenta are integers in units of 0.05 GeV, rapidity  *)
(* and azimuth are integers in units of 0.1, jet radii in units of 0.1,    *)
(* the matching-distance fraction in tenths.  Angular distances are        *)
(* compared and recorded by their squares (deltaR >= 0, so the order is    *)
(* the same).                                                              *)
(*                                                                         *)
(* Particle lists are sequences of runs [pt, rap, phi, n]: n identical     *)
(* consecutive particles.  A list of four-vectors is a sequence of runs    *)
(* [vec, n] in the same way.  The length of a list is the sum of its n.    *)
(***************************************************************************)
EXTENDS Integers, Sequences, FiniteSets, TLC

VARIABLES
  thermal_model,                  \* self.thermal_model
  df_fjparticles,                 \* rows of self.df_fjparticles not yet analysed
  pc,                             \* position of the run
  cfg,                            \* index of the (jetR, pt bin, R_max) analysed last
  fj_particles_hard,              \* analyze_event: hard particles of the event
  fj_particles_combined_beforeCS, \* analyze_event: hard + thermal particles
  fj_particles_combined,          \* analyze_event: one particle list per R_max
  jets_combined_selected,         \* jets of the configuration analysed last
  jets_hard_selected,
  info_combined,                  \* user_info of each combined jet
  info_hard,                      \* user_info of each hard jet
  jet_variables,                  \* self.jet_variables
  four_vectors,                   \* self.four_vectors
  jet_qa_variables,               \* self.jet_qa_variables
  delta_pt_random_cone,           \* self.delta_pt_random_cone
  written,                        \* number of times the output store was written
  input_file,                     \* self.input_file
  hf,                             \* datasets of nsubjettiness.h5
  load_event_calls,               \* calls of thermal_generator.load_event()
  skipped,                        \* 'type mismatch -- skipping event' messages
  config_K,                       \* config['K']
  grid,                           \* self.N_list and self.beta_list
  level,                          \* pythia_parton_hadron: self.level
  no_scale,                       \* self.no_scale
  nev,                            \* self.nev
  config,                         \* config['jetR'] and config['betas']
  py_pc,                          \* position of the pythia_parton_hadron run
  hNevents,                       \* self.hNevents.GetBinContent(1)
  hNeventsMPI,                    \* self.hNeventsMPI.GetBinContent(1)
  iev,                            \* calculate_events: event loop count
  attr,                           \* histogram attributes of self, by name
  hists,                          \* the histogram objects, in creation order
  hist_list,                      \* the hist_list_R* attributes, by name
  counts,                         \* the count1_R* and count2_R* attributes
  tw,                             \* rows of the tw_R* tree writers, by name
  divisions,                      \* quotients computed while filling
  missing,                        \* the exception that ended the run, if any
  rejected,                       \* events lost in next() and forceHadronLevel()
  event,                          \* particles of the event accepted last
  calls,                          \* iev of each find_jets_fill_trees call
  reg_args,                       \* AnalysisUtils_Obs: arguments of get_reg_param
  reg_param                       \* what get_reg_param returned

vars == << thermal_model, df_fjparticles, pc, cfg, fj_particles_hard,
           fj_particles_combined_beforeCS, fj_particles_combined,
           jets_combined_selected, jets_hard_selected, info_combined,
           info_hard, jet_variables, four_vectors, jet_qa_variables,
           delta_pt_random_cone, written, input_file, hf, load_event_calls,
           skipped, config_K, grid, level, no_scale, nev, config, py_pc,
           hNevents, hNeventsMPI, iev, attr, hists, hist_list, counts, tw,
           divisions, missing, rejected, event, calls, reg_args, reg_param >>

\* The state of a pythia_parton_hadron run
py_vars == << level, no_scale, nev, config, py_pc, hNevents, hNeventsMPI, iev,
              attr, hists, hist_list, counts, tw, divisions, missing,
              rejected, event, calls >>

\* A call of AnalysisUtils_Obs.get_reg_param
reg_vars == << reg_args, reg_param >>

\* What only the constructor and the output stage touch
ctor_vars == << thermal_model, input_file, config_K, grid, py_vars, reg_vars >>

----------------------------------------------------------------------------
(* Bounds of the model *)

MaxEvents == 2      \* rows of the input dataframe
PhiN == 63          \* azimuth cells of 0.1 in [0, 2 pi)

----------------------------------------------------------------------------
(* Configuration (initialize_config) *)

jetR_list == << 2, 4 >>
jet_pt_bins == << << 800, 1200 >> >>
eta_max == 9
jet_matching_distance == 6
max_distance == << 0, 10, 25 >>
K == 3
n_max == 800

Labels == { "hard", "combined", "combined_matched" }

----------------------------------------------------------------------------
(* Sequences *)

Range(s) == { s[i] : i \in DOMAIN s }

RECURSIVE SumN(_)
SumN(s) == IF s = << >> THEN 0 ELSE Head(s).n + SumN(Tail(s))

RECURSIVE SumPt(_)
SumPt(s) == IF s = << >> THEN 0 ELSE Head(s).pt * Head(s).n + SumPt(Tail(s))

Abs(x) == IF x < 0 THEN -x ELSE x

----------------------------------------------------------------------------
(* The jet library (fastjet), as far as the program relies on it *)

\* Azimuthal separation, folded into [0, pi]
DPhi(a, b) ==
  LET d == Abs(a - b) % PhiN
  IN  IF 2 * d > PhiN THEN PhiN - d ELSE d

\* PseudoJet.delta_R, squared
delta_R2(a, b) ==
  (a.rap - b.rap) * (a.rap - b.rap) + DPhi(a.phi, b.phi) * DPhi(a.phi, b.phi)

\* Index of the first entry of largest pt
RECURSIVE HardestFrom(_, _, _)
HardestFrom(s, i, best) ==
  IF i > Len(s) THEN best
  ELSE HardestFrom(s, i + 1, IF s[i].pt > s[best].pt THEN i ELSE best)

\* fj.ClusterSequence(particles, JetDefinition(antikt, jetR)).inclusive_jets():
\* the hardest remaining particle collects everything closer than jetR
RECURSIVE inclusive_jets(_, _)
inclusive_jets(parts, jetR) ==
  IF parts = << >> THEN << >>
  ELSE LET seed == parts[HardestFrom(parts, 1, 1)]
           Near(p) == delta_R2(p, seed) < jetR * jetR
           Far(p) == ~Near(p)
           members == SelectSeq(parts, Near)
       IN  << [ pt |-> SumPt(members), rap |-> seed.rap, phi |-> seed.phi,
                constituents |-> members ] >>
           \o inclusive_jets(SelectSeq(parts, Far), jetR)

\* fj.sorted_by_pt: decreasing pt
RECURSIVE InsertByPt(_, _)
InsertByPt(j, s) ==
  IF s = << >> THEN << j >>
  ELSE IF j.pt > Head(s).pt THEN << j >> \o s
  ELSE << Head(s) >> \o InsertByPt(j, Tail(s))

RECURSIVE sorted_by_pt(_)
sorted_by_pt(s) ==
  IF s = << >> THEN << >>
  ELSE InsertByPt(Head(s), sorted_by_pt(Tail(s)))

\* Variant: the hard selector has no SelectorPtMax
jet_selector_hard_NoPtMax(jets, jetR, jet_pt_bin) ==
  LET Pass(j) == /\ j.pt >= jet_pt_bin[1]
                 /\ Abs(j.rap) <= eta_max - jetR
  IN  SelectSeq(jets, Pass)

\* SelectorPtMin(min) & SelectorPtMax(max) & SelectorAbsRapMax(eta_max - jetR)
jet_selector_hard(jets, jetR, jet_pt_bin) ==
  LET Pass(j) == /\ j.pt >= jet_pt_bin[1]
                 /\ j.pt <= jet_pt_bin[2]
                 /\ Abs(j.rap) <= eta_max - jetR
  IN  SelectSeq(jets, Pass)

\* SelectorPtMin(min/5.) & SelectorAbsRapMax(eta_max - jetR)
jet_selector_combined(jets, jetR, jet_pt_bin) ==
  LET Pass(j) == /\ 5 * j.pt >= jet_pt_bin[1]
                 /\ Abs(j.rap) <= eta_max - jetR
  IN  SelectSeq(jets, Pass)

\* CEventSubtractor.process_event: returns a new particle list, the input
\* is left as it is.  Every particle loses an amount of pt that grows with
\* the subtraction radius; particles left without pt are dropped.
RECURSIVE process_event(_, _)
process_event(R_max, parts) ==
  IF parts = << >> THEN << >>
  ELSE LET p == Head(parts)
           rest == process_event(R_max, Tail(parts))
           loss == R_max \div 5
       IN  IF p.pt > loss
           THEN << [ p EXCEPT !.pt = p.pt - loss ] >> \o rest
           ELSE rest

----------------------------------------------------------------------------
(* Constructor: the N-subjettiness grid and the accumulation keys *)

\* beta in units of 0.5: the values 0.5, 1, 2 are 1, 2, 4
\* max(config['K'])
Max(values) == CHOOSE m \in Range(values) : \A x \in Range(values) : x <= m

\* N_list after n passes of `for i in range(self.K-2)`
RECURSIVE N_loop(_)
N_loop(n) == IF n <= 0 THEN << >> ELSE N_loop(n - 1) \o << n, n, n >>

\* beta_list after n passes of the loop; beta in units of 0.5
RECURSIVE beta_loop(_)
beta_loop(n) == IF n <= 0 THEN << >> ELSE beta_loop(n - 1) \o << 1, 2, 4 >>

\* Variant: the loop runs over range(self.K-1)
N_list_of_LongLoop(k) == N_loop(k - 1) \o << k - 1, k - 1 >>

\* self.N_list for the basis size k
N_list_of(k) == N_loop(k - 2) \o << k - 1, k - 1 >>

\* self.beta_list for the basis size k
beta_list_of(k) == beta_loop(k - 2) \o << 2, 4 >>

N_list == N_list_of(K)

beta_list == beta_list_of(K)

\* No grid yet
NoGrid == [ N_list |-> << >>, beta_list |-> << >> ]

\* f'n_subjettiness_N{N}_beta{beta}'
NsubName(i) == << N_list[i], beta_list[i] >>

qa_observables ==
  << "delta_pt", "matched_pt", "matched_deltaR", "jet_pt", "jet_angularity",
     "jet_mass", "jet_theta_g", "jet_subjet_z", "hadron_z",
     "multiplicity_0000", "multiplicity_0150", "multiplicity_0500",
     "multiplicity_1000" >>

\* Variant: label == 'combined'
ContainsCombined_Exact(label) == label = "combined"

\* 'combined' in label
ContainsCombined(label) == label \in { "combined", "combined_matched" }

\* np.isclose(R_max, 0.) for a radius in units of 0.01
isclose0(R_max) == R_max = 0

\* [label][f'R{jetR}'][f'pt{jet_pt_bin}'][f'Rmax{R_max}']
Key(label, jetR, jet_pt_bin, R_max) ==
  [ label |-> label, jetR |-> jetR, jet_pt_bin |-> jet_pt_bin, R_max |-> R_max ]

KeySet ==
  { k \in [ label : Labels, jetR : Range(jetR_list),
            jet_pt_bin : Range(jet_pt_bins), R_max : Range(max_distance) ] :
      ContainsCombined(k.label) \/ isclose0(k.R_max) }

init_jet_variables ==
  [ k \in KeySet |-> [ o \in { NsubName(i) : i \in DOMAIN N_list } |-> << >> ] ]

init_four_vectors ==
  [ k \in KeySet |-> [ jet_constituent_four_vectors |-> << >> ] ]

init_jet_qa_variables ==
  [ k \in KeySet |-> [ o \in Range(qa_observables) |-> << >> ] ]

\* The (jetR, jet_pt_bin, i) of the nested loops of analyze_event, in order
Configs ==
  LET nB == Len(jet_pt_bins)
      nM == Len(max_distance)
  IN  [ c \in 1..(Len(jetR_list) * nB * nM) |->
          [ jetR |-> jetR_list[((c - 1) \div (nB * nM)) + 1],
            jet_pt_bin |-> jet_pt_bins[(((c - 1) \div nM) % nB) + 1],
            i |-> ((c - 1) % nM) + 1 ] ]

----------------------------------------------------------------------------
(* Filling the accumulator.  acc = [jv, fv, qa, status] carries the three  *)
(* dictionaries through a call; status is "ok", "exit" after sys.exit and  *)
(* "error" after an exception.                                             *)

Tau == "tau"      \* a value computed by the N-subjettiness library
Ext == "ext"      \* a value computed by another external routine

Zero4 == << 0, 0, 0, 0 >>

\* Variant: one zero vector too few
ZeroPad_OneShort(k) ==
  IF k > 1 THEN << [ vec |-> Zero4, n |-> k - 1 ] >> ELSE << >>

\* [np.array([0,0,0,0])] * k
ZeroPad(k) == IF k > 0 THEN << [ vec |-> Zero4, n |-> k ] >> ELSE << >>

\* Variant: the comparison is turned round
RECURSIVE CountAbove_Below(_, _)
CountAbove_Below(cons, thr) ==
  IF cons = << >> THEN 0
  ELSE (IF Head(cons).pt < thr THEN Head(cons).n ELSE 0)
       + CountAbove_Below(Tail(cons), thr)

\* Number of constituents with pt above a threshold
RECURSIVE CountAbove(_, _)
CountAbove(cons, thr) ==
  IF cons = << >> THEN 0
  ELSE (IF Head(cons).pt > thr THEN Head(cons).n ELSE 0)
       + CountAbove(Tail(cons), thr)

RECURSIVE AppendNsub(_, _, _)
AppendNsub(series, i, value) ==
  IF i > Len(N_list) THEN series
  ELSE AppendNsub([ series EXCEPT ![NsubName(i)] = Append(@, value) ],
                  i + 1, value)

fill_nsubjettiness(acc, jet, jetR, jet_pt_bin, R_max, label) ==
  LET key == Key(label, jetR, jet_pt_bin, R_max)
      cons == jet.constituents
      leading == cons[HardestFrom(cons, 1, 1)]
  IN  IF acc.status # "ok" THEN acc
      ELSE IF key \notin KeySet \/ jet.pt = 0 \/ cons = << >>
      THEN [ acc EXCEPT !.status = "error" ]
      ELSE [ acc EXCEPT
        !.jv[key] = AppendNsub(@, 1, Tau),
        !.qa[key] = [ @ EXCEPT
          !["jet_pt"] = Append(@, jet.pt),
          !["jet_angularity"] = Append(@, Ext),
          !["jet_mass"] = Append(@, Ext),
          !["jet_theta_g"] = Append(@, Ext),
          !["jet_subjet_z"] = Append(@, Ext),
          !["hadron_z"] = Append(@, << leading.pt, jet.pt >>),
          !["multiplicity_0000"] = Append(@, SumN(cons)),
          !["multiplicity_0150"] = Append(@, CountAbove(cons, 3)),
          !["multiplicity_0500"] = Append(@, CountAbove(cons, 10)),
          !["multiplicity_1000"] = Append(@, CountAbove(cons, 20)) ] ]

\* np.array([perp, rapidity, phi_02pi, 0.]) for every constituent
FourVectors(cons) ==
  [ i \in DOMAIN cons |->
      [ vec |-> << cons[i].pt, cons[i].rap, cons[i].phi % PhiN, 0 >>,
        n |-> cons[i].n ] ]

\* Variant: a jet with exactly n_max constituents is refused as well
fill_four_vectors_ExitAtNmax(acc, jet, jetR, jet_pt_bin, R_max, label) ==
  LET key == Key(label, jetR, jet_pt_bin, R_max)
      particle_list == FourVectors(jet.constituents)
      len == SumN(particle_list)
  IN  IF acc.status # "ok" THEN acc
      ELSE IF len >= n_max THEN [ acc EXCEPT !.status = "exit" ]
      ELSE IF key \notin KeySet THEN [ acc EXCEPT !.status = "error" ]
      ELSE [ acc EXCEPT
        !.fv[key].jet_constituent_four_vectors =
            Append(@, particle_list \o ZeroPad(n_max - len)) ]

fill_four_vectors(acc, jet, jetR, jet_pt_bin, R_max, label) ==
  LET key == Key(label, jetR, jet_pt_bin, R_max)
      particle_list == FourVectors(jet.constituents)
      len == SumN(particle_list)
  IN  IF acc.status # "ok" THEN acc
      ELSE IF len > n_max THEN [ acc EXCEPT !.status = "exit" ]
      ELSE IF key \notin KeySet THEN [ acc EXCEPT !.status = "error" ]
      ELSE [ acc EXCEPT
        !.fv[key].jet_constituent_four_vectors =
            Append(@, particle_list \o ZeroPad(n_max - len)) ]

----------------------------------------------------------------------------
(* Jet matching *)

\* user_info of a jet nothing was attached to; match = 0 stands for None
NoInfo == [ has |-> FALSE, matching_candidates |-> << >>, match |-> 0 ]

\* Variant: the hard jets are not clustered anew, and jets that come out
\* the same as in the configuration before still carry their user_info
FreshInfo_KeptUserInfo(jets) ==
  IF jets # << >> /\ jets = jets_hard_selected THEN info_hard
  ELSE [ k \in DOMAIN jets |-> NoInfo ]

\* The jets of a new ClusterSequence carry no user_info
FreshInfo(jets) == [ k \in DOMAIN jets |-> NoInfo ]

\* ProcessBase.set_jet_info: add jet_match to the jet's matching candidates
set_jet_info(info, jet_match) ==
  [ info EXCEPT !.has = TRUE,
                !.matching_candidates = Append(@, jet_match) ]

\* Variant: a jet without exactly one candidate loses its match
set_matches_pp_ResetAmbiguous(info) ==
  IF info.has /\ Len(info.matching_candidates) = 1
  THEN [ info EXCEPT !.match = info.matching_candidates[1] ]
  ELSE [ info EXCEPT !.match = 0 ]

\* ProcessBase.set_matches_pp: a jet with exactly one candidate gets it as match
set_matches_pp(info) ==
  IF info.has /\ Len(info.matching_candidates) = 1
  THEN [ info EXCEPT !.match = info.matching_candidates[1] ]
  ELSE info

\* Variant: the cut at jetR, without the matching-distance fraction
WithinMatchingDistance_NoFraction(deltaR2, jetR) == deltaR2 < jetR * jetR

\* deltaR < self.jet_matching_distance*jetR
WithinMatchingDistance(deltaR2, jetR) ==
  100 * deltaR2 < (jet_matching_distance * jetR) * (jet_matching_distance * jetR)

\* Variant: the candidate is recorded on the combined jet only
RECURSIVE SetCandidates_OneSided(_, _, _, _, _)
SetCandidates_OneSided(m, jets_c, jets_h, jetR, p) ==
  IF p > Len(jets_c) * Len(jets_h) THEN m
  ELSE LET c == ((p - 1) \div Len(jets_h)) + 1
           h == ((p - 1) % Len(jets_h)) + 1
           deltaR2 == delta_R2(jets_c[c], jets_h[h])
       IN  SetCandidates_OneSided(
             IF WithinMatchingDistance(deltaR2, jetR)
             THEN [ m EXCEPT !.c[c] = set_jet_info(@, h) ]
             ELSE m,
             jets_c, jets_h, jetR, p + 1)

\* The candidate loops of analyze_jets; m = [c, h] are the user_infos, p
\* counts the (jet_combined, jet_hard) pairs in loop order
RECURSIVE SetCandidates(_, _, _, _, _)
SetCandidates(m, jets_c, jets_h, jetR, p) ==
  IF p > Len(jets_c) * Len(jets_h) THEN m
  ELSE LET c == ((p - 1) \div Len(jets_h)) + 1
           h == ((p - 1) % Len(jets_h)) + 1
           deltaR2 == delta_R2(jets_c[c], jets_h[h])
       IN  SetCandidates(
             IF WithinMatchingDistance(deltaR2, jetR)
             THEN [ c |-> [ m.c EXCEPT ![c] = set_jet_info(@, h) ],
                    h |-> [ m.h EXCEPT ![h] = set_jet_info(@, c) ] ]
             ELSE m,
             jets_c, jets_h, jetR, p + 1)

\* Variant: only the leading combined jet is resolved
SetMatches_LeadingOnly(m) ==
  [ m EXCEPT !.c = [ k \in DOMAIN m.c |->
                       IF k = 1 THEN set_matches_pp(m.c[k]) ELSE m.c[k] ] ]

\* The loop over jets_combined_selected that sets the accepted matches
SetMatches(m) ==
  [ m EXCEPT !.c = [ k \in DOMAIN m.c |-> set_matches_pp(m.c[k]) ] ]

\* Fill combined jet info, if inside pt interval
InPtBin(pt, jet_pt_bin) == jet_pt_bin[1] < pt /\ pt < jet_pt_bin[2]

\* Variant: the bin closed at its lower edge
AcceptMatch_ClosedBelow(pt_pp, jet_pt_bin) ==
  jet_pt_bin[1] <= pt_pp /\ pt_pp < jet_pt_bin[2]

\* Accept jet if hard jet is within pt bin
AcceptMatch(pt_pp, jet_pt_bin) == jet_pt_bin[1] < pt_pp /\ pt_pp < jet_pt_bin[2]

\* Variant: every resolved match is filled, whatever the hard jet's pt
fill_jet_matches_NoBinCheck(acc, jet_combined, info, jets_h, jetR, jet_pt_bin, R_max, label) ==
  LET key == Key(label, jetR, jet_pt_bin, R_max)
  IN  IF acc.status # "ok" \/ ~info.has \/ info.match = 0 THEN acc
      ELSE LET jet_pp == jets_h[info.match]
           IN  fill_four_vectors(
                 fill_nsubjettiness(
                   [ acc EXCEPT !.qa[key] = [ @ EXCEPT
                       !["delta_pt"] = Append(@, jet_combined.pt - jet_pp.pt),
                       !["matched_deltaR"] =
                           Append(@, delta_R2(jet_combined, jet_pp)),
                       !["matched_pt"] = Append(@, Ext) ] ],
                   jet_combined, jetR, jet_pt_bin, R_max, label),
                 jet_combined, jetR, jet_pt_bin, R_max, label)

fill_jet_matches(acc, jet_combined, info, jets_h, jetR, jet_pt_bin, R_max, label) ==
  LET key == Key(label, jetR, jet_pt_bin, R_max)
  IN  IF acc.status # "ok" \/ ~info.has \/ info.match = 0 THEN acc
      ELSE LET jet_pp == jets_h[info.match]
           IN  IF ~AcceptMatch(jet_pp.pt, jet_pt_bin) THEN acc
               ELSE IF key \notin KeySet THEN [ acc EXCEPT !.status = "error" ]
               ELSE fill_four_vectors(
                      fill_nsubjettiness(
                        [ acc EXCEPT !.qa[key] = [ @ EXCEPT
                            !["delta_pt"] = Append(@, jet_combined.pt - jet_pp.pt),
                            !["matched_deltaR"] =
                                Append(@, delta_R2(jet_combined, jet_pp)),
                            !["matched_pt"] = Append(@, Ext) ] ],
                        jet_combined, jetR, jet_pt_bin, R_max, label),
                      jet_combined, jetR, jet_pt_bin, R_max, label)

\* Variant: the pt test of line 326 guards fill_nsubjettiness only
RECURSIVE FillJets_UnguardedFourVectors(_, _, _, _, _, _, _)
FillJets_UnguardedFourVectors(acc, jets, only_in_bin, jetR, jet_pt_bin, R_max, label) ==
  IF jets = << >> THEN acc
  ELSE LET jet == Head(jets)
       IN  FillJets_UnguardedFourVectors(
             fill_four_vectors(
               IF only_in_bin /\ ~InPtBin(jet.pt, jet_pt_bin) THEN acc
               ELSE fill_nsubjettiness(acc, jet, jetR, jet_pt_bin, R_max, label),
               jet, jetR, jet_pt_bin, R_max, label),
             Tail(jets), only_in_bin, jetR, jet_pt_bin, R_max, label)

\* for jet in jets: fill_nsubjettiness; fill_four_vectors
RECURSIVE FillJets(_, _, _, _, _, _, _)
FillJets(acc, jets, only_in_bin, jetR, jet_pt_bin, R_max, label) ==
  IF jets = << >> THEN acc
  ELSE LET jet == Head(jets)
       IN  FillJets(
             IF only_in_bin /\ ~InPtBin(jet.pt, jet_pt_bin) THEN acc
             ELSE fill_four_vectors(
                    fill_nsubjettiness(acc, jet, jetR, jet_pt_bin, R_max, label),
                    jet, jetR, jet_pt_bin, R_max, label),
             Tail(jets), only_in_bin, jetR, jet_pt_bin, R_max, label)

\* Variant: the matches are filled under the label 'combined'
RECURSIVE FillMatches_CombinedLabel(_, _, _, _, _, _, _, _)
FillMatches_CombinedLabel(acc, k, jets_c, jets_h, m, jetR, jet_pt_bin, R_max) ==
  IF k > Len(jets_c) THEN acc
  ELSE FillMatches_CombinedLabel(
         fill_jet_matches(acc, jets_c[k], m.c[k], jets_h, jetR, jet_pt_bin,
                          R_max, "combined"),
         k + 1, jets_c, jets_h, m, jetR, jet_pt_bin, R_max)

\* [fill_jet_matches(jet_combined, ...) for jet_combined in jets_combined_selected]
RECURSIVE FillMatches(_, _, _, _, _, _, _, _)
FillMatches(acc, k, jets_c, jets_h, m, jetR, jet_pt_bin, R_max) ==
  IF k > Len(jets_c) THEN acc
  ELSE FillMatches(
         fill_jet_matches(acc, jets_c[k], m.c[k], jets_h, jetR, jet_pt_bin,
                          R_max, "combined_matched"),
         k + 1, jets_c, jets_h, m, jetR, jet_pt_bin, R_max)

\* analyze_jets: the accumulator and the user_infos it leaves behind
analyze_jets_result(acc, jets_c, jets_h, jetR, jet_pt_bin, R_max) ==
  LET acc1 == FillJets(acc, jets_c, TRUE, jetR, jet_pt_bin, R_max, "combined")
      acc2 == IF isclose0(R_max)
              THEN FillJets(acc1, jets_h, FALSE, jetR, jet_pt_bin, R_max, "hard")
              ELSE acc1
      fresh == [ c |-> FreshInfo(jets_c), h |-> FreshInfo(jets_h) ]
      m == SetMatches(SetCandidates(fresh, jets_c, jets_h, jetR, 1))
  IN  IF acc2.status # "ok" THEN [ acc |-> acc2, m |-> fresh ]
      ELSE [ acc |-> FillMatches(acc2, 1, jets_c, jets_h, m, jetR,
                                 jet_pt_bin, R_max),
             m |-> m ]

----------------------------------------------------------------------------
(* Inputs: the rows of the dataframe and the thermal events *)

P(pt, rap, phi, n) == [ pt |-> pt, rap |-> rap, phi |-> phi, n |-> n ]

\* A dataframe entry: a fj.vectorPJ, or something else (valid = FALSE)
VectorPJ(parts) == [ valid |-> TRUE, parts |-> parts ]
NotVectorPJ == [ valid |-> FALSE, parts |-> << >> ]

HardEvents ==
  { << P(1000, 0, 0, 1) >>,
    << P(800, 0, 0, 1) >>,
    << P(1000, 0, 0, 1), P(900, 2, 0, 1) >>,
    << P(1, 0, 0, 800) >>,
    << P(1200, 6, 0, 1) >> }

\* io_hard.load_data() is called twice on the same file: both columns of a
\* row hold the same particles. An entry of either column may fail to be a
\* fj.vectorPJ.
Rows ==
  { [ fj_particles_hard |-> VectorPJ(e), fj_particles_combined |-> VectorPJ(e) ] :
      e \in HardEvents }
  \cup { [ fj_particles_hard |-> NotVectorPJ, fj_particles_combined |-> NotVectorPJ ],
         [ fj_particles_hard |-> VectorPJ(<< P(1000, 0, 0, 1) >>),
           fj_particles_combined |-> NotVectorPJ ] }

\* What thermal_generator.load_event() may return
ThermalEvents ==
  { << >>,
    << P(4, 0, 62, 1) >>,
    << P(1100, -2, 0, 1), P(1100, 2, 0, 1) >>,
    << P(1500, 1, 0, 1) >>,
    << P(1500, 3, 0, 1) >> }

RECURSIVE SeqsUpTo(_, _)
SeqsUpTo(S, n) ==
  IF n = 0 THEN { << >> }
  ELSE LET shorter == SeqsUpTo(S, n - 1)
       IN  shorter \cup { Append(q, x) : q \in shorter, x \in S }

----------------------------------------------------------------------------
(* The run *)

\* A path, as the pieces it is made of; `piece in path` is the substring test
InputFiles ==
  { << "./", "jewel_PbPb", ".root" >>,
    << "./", "jewel_pp", ".root" >>,
    << "./", "jewel", ".root" >> }

Contains(piece, path) == \E n \in DOMAIN path : path[n] = piece

\* The state after the constructor, for the input files and the number of
\* rows given
\* process_ppAA.py never calls AnalysisUtils_Obs.get_reg_param
NoRegParamCall ==
  /\ reg_args = << >>
  /\ reg_param = "idle"

\* process_ppAA.py never touches the state of pythia_parton_hadron.py
NoPythiaRun ==
  /\ level = "None"
  /\ no_scale = FALSE
  /\ nev = 0
  /\ config = << >>
  /\ py_pc = "idle"
  /\ hNevents = 0
  /\ hNeventsMPI = 0
  /\ iev = 0
  /\ attr = << >>
  /\ hists = << >>
  /\ hist_list = << >>
  /\ counts = << >>
  /\ tw = << >>
  /\ divisions = { }
  /\ missing = << >>
  /\ rejected = 0
  /\ event = << >>
  /\ calls = << >>

InitWith(files, rows) ==
  /\ thermal_model \in BOOLEAN
  /\ df_fjparticles \in (IF thermal_model THEN SeqsUpTo(Rows, rows)
                         ELSE { << >> })
  /\ pc = "loop"
  /\ cfg = 0
  /\ fj_particles_hard = << >>
  /\ fj_particles_combined_beforeCS = << >>
  /\ fj_particles_combined = << >>
  /\ jets_combined_selected = << >>
  /\ jets_hard_selected = << >>
  /\ info_combined = << >>
  /\ info_hard = << >>
  /\ jet_variables = init_jet_variables
  /\ four_vectors = init_four_vectors
  /\ jet_qa_variables = init_jet_qa_variables
  /\ delta_pt_random_cone = << >>
  /\ written = 0
  /\ input_file \in files
  /\ hf = << >>
  /\ load_event_calls = 0
  /\ skipped = 0
  /\ config_K = << K >>
  /\ grid = [ N_list |-> N_list, beta_list |-> beta_list ]
  /\ NoPythiaRun
  /\ NoRegParamCall

Init == InitWith({ << "./", "jewel_PbPb", ".root" >> }, MaxEvents)

\* Variant: every pass works on the output of the pass before it
RECURSIVE ChainedPass(_, _)
ChainedPass(i, beforeCS) ==
  IF i = 0 THEN beforeCS
  ELSE IF max_distance[i] = 0 THEN ChainedPass(i - 1, beforeCS)
  ELSE process_event(max_distance[i], ChainedPass(i - 1, beforeCS))

subtract_each_Chained(beforeCS) ==
  [ i \in DOMAIN max_distance |-> ChainedPass(i, beforeCS) ]

\* Perform constituent subtraction for each R_max
subtract_each(beforeCS) ==
  [ i \in DOMAIN max_distance |->
      IF max_distance[i] = 0 THEN beforeCS
      ELSE process_event(max_distance[i], beforeCS) ]

\* Variant: the constructor leaves an empty dataframe behind and the run
\* goes on to the output stage
process_ppAA_no_dataframe_EmptyRun ==
  /\ pc = "loop"
  /\ ~thermal_model
  /\ pc' = "done"
  /\ written' = written + 1
  /\ UNCHANGED << ctor_vars, df_fjparticles, cfg, fj_particles_hard,
                  fj_particles_combined_beforeCS, fj_particles_combined,
                  jets_combined_selected, jets_hard_selected, info_combined,
                  info_hard, jet_variables, four_vectors, jet_qa_variables,
                  delta_pt_random_cone, hf, load_event_calls, skipped >>

\* process_ppAA without self.df_fjparticles, which only the thermal branch
\* of the constructor sets
process_ppAA_no_dataframe ==
  /\ pc = "loop"
  /\ ~thermal_model
  /\ pc' = "crashed"
  /\ UNCHANGED << ctor_vars, df_fjparticles, cfg, fj_particles_hard,
                  fj_particles_combined_beforeCS, fj_particles_combined,
                  jets_combined_selected, jets_hard_selected, info_combined,
                  info_hard, jet_variables, four_vectors, jet_qa_variables,
                  delta_pt_random_cone, written, hf, load_event_calls,
                  skipped >>

\* Variant: the type test sits behind the mixing and the random cone
analyze_event_skip_LateTest ==
  /\ pc = "loop"
  /\ thermal_model
  /\ df_fjparticles # << >>
  /\ ~Head(df_fjparticles).fj_particles_hard.valid
  /\ df_fjparticles' = Tail(df_fjparticles)
  /\ skipped' = skipped + 1
  /\ load_event_calls' = load_event_calls + 1
  /\ delta_pt_random_cone' = Append(delta_pt_random_cone, Ext)
  /\ UNCHANGED << ctor_vars, pc, cfg, fj_particles_hard,
                  fj_particles_combined_beforeCS, fj_particles_combined,
                  jets_combined_selected, jets_hard_selected, info_combined,
                  info_hard, jet_variables, four_vectors, jet_qa_variables,
                  written, hf >>

\* analyze_event on a row whose hard entry is no fj.vectorPJ: the event is
\* skipped
analyze_event_skip ==
  /\ pc = "loop"
  /\ thermal_model
  /\ df_fjparticles # << >>
  /\ ~Head(df_fjparticles).fj_particles_hard.valid
  /\ df_fjparticles' = Tail(df_fjparticles)
  /\ skipped' = skipped + 1
  /\ UNCHANGED << ctor_vars, pc, cfg, fj_particles_hard,
                  fj_particles_combined_beforeCS, fj_particles_combined,
                  jets_combined_selected, jets_hard_selected, info_combined,
                  info_hard, jet_variables, four_vectors, jet_qa_variables,
                  delta_pt_random_cone, written, hf, load_event_calls >>

\* analyze_event on a valid hard list and a combined entry that is no
\* fj.vectorPJ. With the thermal model the test of line 245 is off: the entry
\* has no push_back (line 256) and, for an empty thermal event, is refused
\* by process_event (line 267)
analyze_event_type_error ==
  /\ pc = "loop"
  /\ thermal_model
  /\ df_fjparticles # << >>
  /\ Head(df_fjparticles).fj_particles_hard.valid
  /\ ~Head(df_fjparticles).fj_particles_combined.valid
  /\ \E fj_particles_background \in ThermalEvents :
       delta_pt_random_cone' =
         IF fj_particles_background = << >>
         THEN Append(delta_pt_random_cone, Ext)
         ELSE delta_pt_random_cone
  /\ load_event_calls' = load_event_calls + 1
  /\ pc' = "crashed"
  /\ UNCHANGED << ctor_vars, df_fjparticles, cfg, fj_particles_hard,
                  fj_particles_combined_beforeCS, fj_particles_combined,
                  jets_combined_selected, jets_hard_selected, info_combined,
                  info_hard, jet_variables, four_vectors, jet_qa_variables,
                  written, hf, skipped >>

\* analyze_event up to the loops over the configurations: mixing, delta-pt
\* by random cone, constituent subtraction
analyze_event ==
  /\ pc = "loop"
  /\ thermal_model
  /\ df_fjparticles # << >>
  /\ Head(df_fjparticles).fj_particles_hard.valid
  /\ Head(df_fjparticles).fj_particles_combined.valid
  /\ \E fj_particles_background \in ThermalEvents :
       LET row == Head(df_fjparticles)
           beforeCS == row.fj_particles_combined.parts \o fj_particles_background
       IN  /\ fj_particles_hard' = row.fj_particles_hard.parts
           /\ fj_particles_combined_beforeCS' = beforeCS
           /\ fj_particles_combined' = subtract_each(beforeCS)
  /\ load_event_calls' = load_event_calls + 1
  /\ delta_pt_random_cone' = Append(delta_pt_random_cone, Ext)
  /\ df_fjparticles' = Tail(df_fjparticles)
  /\ pc' = "jets"
  /\ cfg' = 0
  /\ jets_combined_selected' = << >>
  /\ jets_hard_selected' = << >>
  /\ info_combined' = << >>
  /\ info_hard' = << >>
  /\ UNCHANGED << ctor_vars, jet_variables, four_vectors,
                  jet_qa_variables, written, hf, skipped >>

\* One pass of the innermost loop of analyze_event: jet finding for the
\* next configuration and analyze_jets on the selected jets
analyze_jets ==
  /\ pc = "jets"
  /\ LET c == Configs[cfg + 1]
         R_max == max_distance[c.i]
         jets_combined == sorted_by_pt(inclusive_jets(fj_particles_combined[c.i], c.jetR))
         jets_c == jet_selector_combined(jets_combined, c.jetR, c.jet_pt_bin)
         jets_hard == sorted_by_pt(inclusive_jets(fj_particles_hard, c.jetR))
         jets_h == jet_selector_hard(jets_hard, c.jetR, c.jet_pt_bin)
         acc == [ jv |-> jet_variables, fv |-> four_vectors,
                  qa |-> jet_qa_variables, status |-> "ok" ]
         r == analyze_jets_result(acc, jets_c, jets_h, c.jetR, c.jet_pt_bin, R_max)
     IN  /\ jets_combined_selected' = jets_c
         /\ jets_hard_selected' = jets_h
         /\ info_combined' = r.m.c
         /\ info_hard' = r.m.h
         /\ jet_variables' = r.acc.jv
         /\ four_vectors' = r.acc.fv
         /\ jet_qa_variables' = r.acc.qa
         /\ pc' = IF r.acc.status = "exit" THEN "aborted"
                  ELSE IF r.acc.status = "error" THEN "crashed"
                  ELSE IF cfg + 1 = Len(Configs) THEN "loop"
                  ELSE "jets"
         /\ cfg' = cfg + 1
  /\ UNCHANGED << ctor_vars, df_fjparticles, fj_particles_hard,
                  fj_particles_combined_beforeCS, fj_particles_combined,
                  delta_pt_random_cone, written, hf, load_event_calls,
                  skipped >>

\* The order of the loops over label, jetR, jet_pt_bin and R_max of the
\* output stage, and the test of line 200
LabelOrder == << "hard", "combined", "combined_matched" >>

KeyExists(k) == ContainsCombined(k.label) \/ isclose0(k.R_max)

KeyOrder ==
  SelectSeq([ n \in 1..(Len(LabelOrder) * Len(Configs)) |->
                LET c == Configs[((n - 1) % Len(Configs)) + 1]
                IN  Key(LabelOrder[((n - 1) \div Len(Configs)) + 1], c.jetR,
                        c.jet_pt_bin, max_distance[c.i]) ],
            KeyExists)

\* The name of a dataset: f'{name}{suffix}', or the bare name
Dataset(name, k) == [ name |-> name, key |-> k ]
NoKey == Key("", 0, << >>, 0)

\* One array per jet, holding the jet's N-subjettiness values
X_Nsub_reformatted(k) ==
  [ j \in 1..Len(jet_variables[k][NsubName(1)]) |->
      [ i \in DOMAIN N_list |-> jet_variables[k][NsubName(i)][j] ] ]

\* The branches of lines 208-211: np.ones, np.zeros, or y left unbound
LabelValue ==
  IF Contains("jewel_PbPb", input_file) THEN 1
  ELSE IF Contains("jewel_pp", input_file) THEN 0
  ELSE -1

y(k) == [ j \in 1..Len(X_Nsub_reformatted(k)) |-> LabelValue ]

KeyedNames == { "X_Nsub", "y", "X_four_vectors" } \cup Range(qa_observables)

Data(d) ==
  CASE d.name = "X_Nsub" -> X_Nsub_reformatted(d.key)
    [] d.name = "y" -> y(d.key)
    [] d.name = "X_four_vectors" -> four_vectors[d.key].jet_constituent_four_vectors
    [] d.name = "N_list" -> grid.N_list
    [] d.name = "beta_list" -> grid.beta_list
    [] d.name = "delta_pt_random_cone" -> delta_pt_random_cone
    [] OTHER -> jet_qa_variables[d.key][d.name]

\* Variant: the output stage does not wait for the end of the dataframe
write_output_BeforeLoopEnd ==
  /\ pc = "loop"
  /\ thermal_model
  /\ hf' = [ d \in { Dataset(name, k) : name \in KeyedNames,
                                        k \in Range(KeyOrder) }
                   \cup { Dataset(name, NoKey) :
                            name \in { "N_list", "beta_list",
                                       "delta_pt_random_cone" } } |->
                Data(d) ]
  /\ pc' = "done"
  /\ written' = written + 1
  /\ UNCHANGED << ctor_vars, df_fjparticles, cfg, fj_particles_hard,
                  fj_particles_combined_beforeCS, fj_particles_combined,
                  jets_combined_selected, jets_hard_selected, info_combined,
                  info_hard, jet_variables, four_vectors, jet_qa_variables,
                  delta_pt_random_cone, load_event_calls, skipped >>

\* process_ppAA after the event loop: transform_to_numpy and the output file.
\* With neither marker in the path y is unbound when line 212 reads it, right
\* after the first X_Nsub dataset
write_output ==
  /\ pc = "loop"
  /\ thermal_model
  /\ df_fjparticles = << >>
  /\ IF LabelValue >= 0
     THEN /\ hf' = [ d \in { Dataset(name, k) : name \in KeyedNames,
                                               k \in Range(KeyOrder) }
                          \cup { Dataset(name, NoKey) :
                                   name \in { "N_list", "beta_list",
                                              "delta_pt_random_cone" } } |->
                       Data(d) ]
          /\ pc' = "done"
          /\ written' = written + 1
     ELSE /\ hf' = [ d \in { Dataset("X_Nsub", KeyOrder[1]) } |-> Data(d) ]
          /\ pc' = "crashed"
          /\ written' = written
  /\ UNCHANGED << ctor_vars, df_fjparticles, cfg, fj_particles_hard,
                  fj_particles_combined_beforeCS, fj_particles_combined,
                  jets_combined_selected, jets_hard_selected, info_combined,
                  info_hard, jet_variables, four_vectors, jet_qa_variables,
                  delta_pt_random_cone, load_event_calls, skipped >>

Next ==
  \/ process_ppAA_no_dataframe
  \/ analyze_event_skip
  \/ analyze_event_type_error
  \/ analyze_event
  \/ analyze_jets
  \/ write_output

Spec == Init /\ [][Next]_vars

\* The runs over every input file
MaxOutputEvents == 1

InitOutput == InitWith(InputFiles, MaxOutputEvents)

SpecOutput == InitOutput /\ [][Next]_vars

\* The constructor from initialize_config to the grid of (N, beta): the
\* dictionaries do not exist yet
MaxK == 7

InitGrid ==
  /\ config_K \in SeqsUpTo(1..MaxK, 2) \ { << >> }
  /\ grid = NoGrid
  /\ thermal_model = TRUE
  /\ df_fjparticles = << >>
  /\ pc = "init"
  /\ cfg = 0
  /\ fj_particles_hard = << >>
  /\ fj_particles_combined_beforeCS = << >>
  /\ fj_particles_combined = << >>
  /\ jets_combined_selected = << >>
  /\ jets_hard_selected = << >>
  /\ info_combined = << >>
  /\ info_hard = << >>
  /\ jet_variables = << >>
  /\ four_vectors = << >>
  /\ jet_qa_variables = << >>
  /\ delta_pt_random_cone = << >>
  /\ written = 0
  /\ input_file = << "./", "jewel_PbPb", ".root" >>
  /\ hf = << >>
  /\ load_event_calls = 0
  /\ skipped = 0
  /\ NoPythiaRun
  /\ NoRegParamCall

\* __init__, lines 87-94
build_N_list ==
  /\ pc = "init"
  /\ grid = NoGrid
  /\ grid' = [ N_list |-> N_list_of(Max(config_K)),
               beta_list |-> beta_list_of(Max(config_K)) ]
  /\ UNCHANGED << thermal_model, df_fjparticles, pc, cfg, fj_particles_hard,
                  fj_particles_combined_beforeCS, fj_particles_combined,
                  jets_combined_selected, jets_hard_selected, info_combined,
                  info_hard, jet_variables, four_vectors, jet_qa_variables,
                  delta_pt_random_cone, written, input_file, hf,
                  load_event_calls, skipped, config_K, py_vars, reg_vars >>

NextGrid == build_N_list

SpecGrid == InitGrid /\ [][NextGrid]_vars

----------------------------------------------------------------------------
(* Vocabulary of the properties *)

\* The configuration whose jets and user_infos the state holds
Analysed == cfg >= 1 /\ pc \in { "jets", "loop", "done" }

LastConfig == Configs[cfg]

LastKey(label) ==
  Key(label, LastConfig.jetR, LastConfig.jet_pt_bin, max_distance[LastConfig.i])

MatchedKeys == { k \in KeySet : k.label = "combined_matched" }

NumCandidates(info) == Len(info.matching_candidates)

\* The entries a step added at the end of a series
Added(old, new) == SubSeq(new, Len(old) + 1, Len(new))

\* Indices, in order, of the combined jets with a resolved match whose hard
\* jet has lo < pt < hi, or lo <= pt < hi when closed_below
AcceptedIndices(info_c, jets_h, lo, hi, closed_below) ==
  LET Accepted(k) ==
        /\ info_c[k].match # 0
        /\ \/ lo < jets_h[info_c[k].match].pt
           \/ closed_below /\ lo = jets_h[info_c[k].match].pt
        /\ jets_h[info_c[k].match].pt < hi
  IN  SelectSeq([ k \in DOMAIN info_c |-> k ], Accepted)

\* The delta_pt entries of the accepted matches
ExpectedDeltaPt(idx, info_c, jets_c, jets_h) ==
  [ j \in DOMAIN idx |-> jets_c[idx[j]].pt - jets_h[info_c[idx[j]].match].pt ]

----------------------------------------------------------------------------
(* C1: every entry of a 'combined_matched' series comes from a combined    *)
(* jet whose angular distance to its matched hard jet is strictly less     *)
(* than jet_matching_distance * jetR: this holds of every recorded         *)
(* matched_deltaR and of every resolved match of the configuration         *)
(* analysed last.                                                          *)
C1_MatchedWithinDistance ==
  /\ \A k \in MatchedKeys :
       \A v \in Range(jet_qa_variables[k]["matched_deltaR"]) :
         100 * v < (jet_matching_distance * k.jetR) * (jet_matching_distance * k.jetR)
  /\ Analysed =>
       \A c \in DOMAIN info_combined :
         info_combined[c].match # 0 =>
           100 * delta_R2(jets_combined_selected[c],
                          jets_hard_selected[info_combined[c].match])
             < (jet_matching_distance * LastConfig.jetR)
               * (jet_matching_distance * LastConfig.jetR)

\* An accepted match between jets that do not coincide has been recorded
C1_Witness ==
  \E k \in MatchedKeys :
    \E v \in Range(jet_qa_variables[k]["matched_deltaR"]) : v > 0

----------------------------------------------------------------------------
(* C2 (as claimed): a combined jet with a resolved match is appended under *)
(* 'combined_matched' exactly when the hard jet's pt lies in the half-open *)
(* bin [bin_min, bin_max).                                                 *)
C2_HalfOpenBin ==
  [][ pc = "jets" /\ pc' \in { "jets", "loop" } =>
        LET c == Configs[cfg']
            key == Key("combined_matched", c.jetR, c.jet_pt_bin, max_distance[c.i])
            idx == AcceptedIndices(info_combined', jets_hard_selected',
                                   c.jet_pt_bin[1], c.jet_pt_bin[2], TRUE)
        IN  Added(jet_qa_variables[key]["delta_pt"],
                  jet_qa_variables'[key]["delta_pt"])
              = ExpectedDeltaPt(idx, info_combined', jets_combined_selected',
                                jets_hard_selected') ]_vars

(* C2 (amended): a combined jet with a resolved match is appended under    *)
(* 'combined_matched' exactly when the hard jet's pt lies strictly between *)
(* bin_min and bin_max; a hard jet at bin_min or at bin_max is rejected.   *)
C2_OpenBin ==
  [][ pc = "jets" /\ pc' \in { "jets", "loop" } =>
        LET c == Configs[cfg']
            key == Key("combined_matched", c.jetR, c.jet_pt_bin, max_distance[c.i])
            idx == AcceptedIndices(info_combined', jets_hard_selected',
                                   c.jet_pt_bin[1], c.jet_pt_bin[2], FALSE)
        IN  Added(jet_qa_variables[key]["delta_pt"],
                  jet_qa_variables'[key]["delta_pt"])
              = ExpectedDeltaPt(idx, info_combined', jets_combined_selected',
                                jets_hard_selected') ]_vars

\* A resolved match whose hard jet sits exactly at bin_min, not accepted
C2_Witness ==
  /\ Analysed
  /\ \E c \in DOMAIN info_combined :
       /\ info_combined[c].match # 0
       /\ jets_hard_selected[info_combined[c].match].pt = LastConfig.jet_pt_bin[1]
  /\ jet_qa_variables[LastKey("combined_matched")]["delta_pt"] = << >>

----------------------------------------------------------------------------
----------------------------------------------------------------------------
----------------------------------------------------------------------------
----------------------------------------------------------------------------
----------------------------------------------------------------------------
(* C7: after candidate collection the links are symmetric and are exactly  *)
(* the pairs closer than jet_matching_distance * jetR: hard jet h is a     *)
(* candidate of combined jet c iff c is a candidate of h iff               *)
(* deltaR(c, h) < jet_matching_distance * jetR; each link is held once.    *)
C7_SymmetricCandidates ==
  Analysed =>
    /\ \A c \in DOMAIN jets_combined_selected :
         \A h \in DOMAIN jets_hard_selected :
           LET linked == h \in Range(info_combined[c].matching_candidates)
               near == 100 * delta_R2(jets_combined_selected[c],
                                      jets_hard_selected[h])
                         < (jet_matching_distance * LastConfig.jetR)
                           * (jet_matching_distance * LastConfig.jetR)
           IN  /\ linked <=> c \in Range(info_hard[h].matching_candidates)
               /\ linked <=> near
    /\ \A c \in DOMAIN info_combined :
         /\ Range(info_combined[c].matching_candidates)
              \subseteq DOMAIN jets_hard_selected
         /\ NumCandidates(info_combined[c])
              = Cardinality(Range(info_combined[c].matching_candidates))
    /\ \A h \in DOMAIN info_hard :
         /\ Range(info_hard[h].matching_candidates)
              \subseteq DOMAIN jets_combined_selected
         /\ NumCandidates(info_hard[h])
              = Cardinality(Range(info_hard[h].matching_candidates))

\* A configuration with a linked pair and with a pair too far apart
C7_Witness ==
  /\ Analysed
  /\ \E c \in DOMAIN info_combined : \E h \in DOMAIN info_hard :
       h \in Range(info_combined[c].matching_candidates)
  /\ \E c \in DOMAIN info_combined : \E h \in DOMAIN info_hard :
       h \notin Range(info_combined[c].matching_candidates)

----------------------------------------------------------------------------
(* What fill_four_vectors is to append *)

\* list is the jet's constituents as (perp, rapidity, phi_02pi, 0), run by
\* run in constituent order, followed by zero vectors up to n_max entries
PaddedListOf(list, jet) ==
  LET cons == jet.constituents
  IN  /\ SumN(cons) <= n_max
      /\ SumN(list) = n_max
      /\ Len(list) >= Len(cons)
      /\ \A r \in DOMAIN cons :
           list[r] = [ vec |-> << cons[r].pt, cons[r].rap, cons[r].phi % PhiN, 0 >>,
                       n |-> cons[r].n ]
      /\ \A r \in (Len(cons) + 1)..Len(list) : list[r].vec = Zero4

\* The jets a step passes to fill_four_vectors under each label, in order
CombinedInBin(jets_c, jet_pt_bin) ==
  LET In(j) == jet_pt_bin[1] < j.pt /\ j.pt < jet_pt_bin[2]
  IN  SelectSeq(jets_c, In)

AcceptedJets(info_c, jets_c, jets_h, jet_pt_bin) ==
  LET idx == AcceptedIndices(info_c, jets_h, jet_pt_bin[1], jet_pt_bin[2], FALSE)
  IN  [ j \in DOMAIN idx |-> jets_c[idx[j]] ]

FilledJets(label, R_max, info_c, jets_c, jets_h, jet_pt_bin) ==
  IF label = "combined" THEN CombinedInBin(jets_c, jet_pt_bin)
  ELSE IF label = "hard" THEN (IF R_max = 0 THEN jets_h ELSE << >>)
  ELSE AcceptedJets(info_c, jets_c, jets_h, jet_pt_bin)

----------------------------------------------------------------------------
(* C8: for every jet with N <= n_max constituents that a step passes to    *)
(* fill_four_vectors, the step appends one list to the series of the key;  *)
(* the list has exactly n_max four-vectors, the first N are the jet's      *)
(* constituents in constituent order, the other n_max - N are zero.        *)
C8_ZeroPadded ==
  [][ pc = "jets" =>
        LET c == Configs[cfg']
            R_max == max_distance[c.i]
        IN  \A label \in Labels :
              LET key == Key(label, c.jetR, c.jet_pt_bin, R_max)
                  jets == FilledJets(label, R_max, info_combined',
                                     jets_combined_selected',
                                     jets_hard_selected', c.jet_pt_bin)
              IN  key \in KeySet =>
                    LET new == Added(four_vectors[key].jet_constituent_four_vectors,
                                     four_vectors'[key].jet_constituent_four_vectors)
                    IN  /\ Len(new) <= Len(jets)
                        /\ pc' # "aborted" => Len(new) = Len(jets)
                        /\ \A j \in DOMAIN new : PaddedListOf(new[j], jets[j]) ]_vars

\* A jet of two constituents was filled: its list ends in a run of zeros
C8_Witness ==
  /\ Analysed
  /\ \E c \in DOMAIN jets_combined_selected :
       /\ LastConfig.jet_pt_bin[1] < jets_combined_selected[c].pt
       /\ jets_combined_selected[c].pt < LastConfig.jet_pt_bin[2]
       /\ SumN(jets_combined_selected[c].constituents) = 2
  /\ \E list \in Range(four_vectors[LastKey("combined")].jet_constituent_four_vectors) :
       /\ Len(list) = 3
       /\ list[3] = [ vec |-> Zero4, n |-> n_max - 2 ]

----------------------------------------------------------------------------
(* C9: a step passes a jet with more than n_max constituents to            *)
(* fill_four_vectors exactly when it ends the run: nothing happens after   *)
(* that, the remaining rows stay unanalysed and the output is never        *)
(* written.  A jet with exactly n_max constituents is filled, and its list *)
(* holds its constituents and no zero vector.                              *)
C9_OverflowAborts ==
  [][ /\ pc # "aborted"
      /\ written' # written => pc = "loop" /\ pc' = "done"
      /\ pc = "jets" =>
           LET c == Configs[cfg']
               R_max == max_distance[c.i]
               Jets(label) == FilledJets(label, R_max, info_combined',
                                         jets_combined_selected',
                                         jets_hard_selected', c.jet_pt_bin)
               Overflow(label) ==
                 \E j \in DOMAIN Jets(label) :
                   SumN(Jets(label)[j].constituents) > n_max
           IN  /\ pc' = "aborted" <=> \E label \in Labels : Overflow(label)
               /\ pc' = "aborted" =>
                    written' = 0 /\ df_fjparticles' = df_fjparticles
               /\ pc' # "aborted" =>
                    \A label \in Labels :
                      LET key == Key(label, c.jetR, c.jet_pt_bin, R_max)
                      IN  key \in KeySet =>
                            LET new == Added(
                                  four_vectors[key].jet_constituent_four_vectors,
                                  four_vectors'[key].jet_constituent_four_vectors)
                            IN  \A j \in DOMAIN new :
                                  SumN(Jets(label)[j].constituents) = n_max =>
                                    /\ SumN(new[j]) = n_max
                                    /\ \A r \in DOMAIN new[j] :
                                         new[j][r].vec # Zero4 ]_vars

\* The run was ended by an oversized jet while rows were still waiting
C9_Witness ==
  /\ pc = "aborted"
  /\ written = 0
  /\ df_fjparticles # << >>
  /\ \/ \E c \in DOMAIN jets_combined_selected :
          SumN(jets_combined_selected[c].constituents) > n_max
     \/ \E h \in DOMAIN jets_hard_selected :
          SumN(jets_hard_selected[h].constituents) > n_max

----------------------------------------------------------------------------
(* C10: inside an event, the particle list of every subtraction radius 0   *)
(* is the combined-before-subtraction list itself, the list of every other *)
(* radius is one subtraction pass over that same before-subtraction list,  *)
(* and the combined jets of a configuration with radius 0 are the jets     *)
(* found in the before-subtraction list.                                   *)
C10_SubtractionPasses ==
  /\ pc = "jets" =>
       /\ DOMAIN fj_particles_combined = DOMAIN max_distance
       /\ \A i \in DOMAIN max_distance :
            fj_particles_combined[i] =
              IF max_distance[i] = 0 THEN fj_particles_combined_beforeCS
              ELSE process_event(max_distance[i], fj_particles_combined_beforeCS)
  /\ Analysed /\ pc # "done" /\ max_distance[LastConfig.i] = 0 =>
       jets_combined_selected =
         jet_selector_combined(
           sorted_by_pt(inclusive_jets(fj_particles_combined_beforeCS,
                                       LastConfig.jetR)),
           LastConfig.jetR, LastConfig.jet_pt_bin)

\* An event in which both non-zero radii changed the particle list, each
\* in its own way
C10_Witness ==
  /\ pc = "jets"
  /\ fj_particles_combined_beforeCS # << >>
  /\ fj_particles_combined[1] = fj_particles_combined_beforeCS
  /\ fj_particles_combined[2] # fj_particles_combined_beforeCS
  /\ fj_particles_combined[3] # fj_particles_combined[2]

----------------------------------------------------------------------------
----------------------------------------------------------------------------
(* C12: a call of analyze_event that skips its event (the hard entry is    *)
(* no particle collection, or the thermal model is off and the combined    *)
(* entry is none) takes the row off and prints its message, and nothing    *)
(* else: no series of jet_variables, four_vectors or jet_qa_variables and  *)
(* not delta_pt_random_cone gains an entry, no thermal event is loaded,    *)
(* and the loop stands at the next row in the state it would be in had the *)
(* skipped row not been in the input.                                      *)
C12_SkipLeavesAccumulator ==
  [][ /\ pc = "loop"
      /\ df_fjparticles # << >>
      /\ \/ ~Head(df_fjparticles).fj_particles_hard.valid
         \/ ~thermal_model /\ ~Head(df_fjparticles).fj_particles_combined.valid
      => /\ jet_variables' = jet_variables
         /\ four_vectors' = four_vectors
         /\ jet_qa_variables' = jet_qa_variables
         /\ delta_pt_random_cone' = delta_pt_random_cone
         /\ load_event_calls' = load_event_calls
         /\ skipped' = skipped + 1
         /\ df_fjparticles' = Tail(df_fjparticles)
         /\ pc' = "loop"
         /\ UNCHANGED << cfg, fj_particles_hard, fj_particles_combined_beforeCS,
                         fj_particles_combined, jets_combined_selected,
                         jets_hard_selected, info_combined, info_hard,
                         written, hf >> ]_vars

\* A row was skipped and the row after it is being analysed: one thermal
\* event loaded, one random cone, a jet recorded
C12_Witness ==
  /\ skipped = 1
  /\ pc = "jets"
  /\ df_fjparticles = << >>
  /\ load_event_calls = 1
  /\ Len(delta_pt_random_cone) = 1
  /\ \E k \in KeySet : jet_qa_variables[k]["jet_pt"] # << >>

----------------------------------------------------------------------------
----------------------------------------------------------------------------
(* C14: the keys of jet_variables, four_vectors and jet_qa_variables are   *)
(* those the constructor created and never change: a 'combined' and a      *)
(* 'combined_matched' key for every (jetR, pt bin, R_max), a 'hard' key    *)
(* for every (jetR, pt bin) and R_max = 0 only, each holding the series    *)
(* the constructor gave it.  No fill fails on a missing key, and a 'hard'  *)
(* series grows only in a configuration with R_max = 0.                    *)
C14_KeySetFixed ==
  /\ [](LET keys == { k \in [ label : { "hard", "combined", "combined_matched" },
                              jetR : Range(jetR_list),
                              jet_pt_bin : Range(jet_pt_bins),
                              R_max : Range(max_distance) ] :
                        k.label = "hard" => k.R_max = 0 }
        IN  /\ DOMAIN jet_variables = keys
            /\ DOMAIN four_vectors = keys
            /\ DOMAIN jet_qa_variables = keys
            /\ \A k \in keys :
                 /\ DOMAIN jet_variables[k] = { NsubName(i) : i \in DOMAIN N_list }
                 /\ DOMAIN four_vectors[k] = { "jet_constituent_four_vectors" }
                 /\ DOMAIN jet_qa_variables[k] = Range(qa_observables))
  /\ [][ pc = "jets" =>
           /\ pc' # "crashed"
           /\ max_distance[Configs[cfg'].i] # 0 =>
                \A k \in DOMAIN jet_qa_variables :
                  k.label = "hard" =>
                    /\ jet_variables'[k] = jet_variables[k]
                    /\ four_vectors'[k] = four_vectors[k]
                    /\ jet_qa_variables'[k] = jet_qa_variables[k] ]_vars

\* Entries under a 'hard' key, and under 'combined' and 'combined_matched'
\* keys of a non-zero R_max
C14_Witness ==
  /\ \E k \in DOMAIN jet_qa_variables :
       k.label = "hard" /\ jet_qa_variables[k]["jet_pt"] # << >>
  /\ \E k \in DOMAIN jet_qa_variables :
       /\ k.label = "combined" /\ k.R_max # 0
       /\ jet_qa_variables[k]["jet_pt"] # << >>
  /\ \E k \in DOMAIN jet_qa_variables :
       /\ k.label = "combined_matched" /\ k.R_max # 0
       /\ jet_qa_variables[k]["jet_pt"] # << >>

----------------------------------------------------------------------------
(* C15: the series of a 'combined_matched' key are extended by             *)
(* fill_jet_matches alone, one entry each per accepted match: in a step    *)
(* that analyses a configuration every series of its 'combined_matched'    *)
(* key grows by the number of combined jets whose match was accepted, in   *)
(* every other step and for every other 'combined_matched' key nothing     *)
(* grows, so all series of such a key have the length of its delta_pt      *)
(* series; and delta_pt, matched_deltaR and matched_pt stay empty under    *)
(* every 'hard' and 'combined' key.                                        *)
C15_MatchedSeriesCount ==
  /\ [](\A k \in DOMAIN jet_qa_variables :
          /\ k.label \in { "hard", "combined" } =>
               /\ jet_qa_variables[k]["delta_pt"] = << >>
               /\ jet_qa_variables[k]["matched_deltaR"] = << >>
               /\ jet_qa_variables[k]["matched_pt"] = << >>
          /\ k.label = "combined_matched" /\ pc # "aborted" =>
               LET n == Len(jet_qa_variables[k]["delta_pt"])
               IN  /\ \A o \in DOMAIN jet_qa_variables[k] :
                        Len(jet_qa_variables[k][o]) = n
                   /\ \A o \in DOMAIN jet_variables[k] :
                        Len(jet_variables[k][o]) = n
                   /\ Len(four_vectors[k].jet_constituent_four_vectors) = n)
  /\ [][ pc' # "aborted" =>
           \A k \in DOMAIN jet_qa_variables :
             k.label = "combined_matched" =>
               LET accepted ==
                     IF pc = "jets" /\ k.jetR = Configs[cfg'].jetR
                        /\ k.jet_pt_bin = Configs[cfg'].jet_pt_bin
                        /\ k.R_max = max_distance[Configs[cfg'].i]
                     THEN Cardinality(
                            { c \in DOMAIN info_combined' :
                                /\ info_combined'[c].match # 0
                                /\ k.jet_pt_bin[1]
                                     < jets_hard_selected'[info_combined'[c].match].pt
                                /\ jets_hard_selected'[info_combined'[c].match].pt
                                     < k.jet_pt_bin[2] })
                     ELSE 0
               IN  Len(jet_qa_variables'[k]["delta_pt"])
                     = Len(jet_qa_variables[k]["delta_pt"]) + accepted ]_vars

\* Two accepted matches under a key whose 'combined' key holds another
\* number of jets
C15_Witness ==
  \E k \in DOMAIN jet_qa_variables :
    /\ k.label = "combined_matched"
    /\ Len(jet_qa_variables[k]["delta_pt"]) >= 2
    /\ \E q \in DOMAIN jet_qa_variables :
         /\ q.label = "combined" /\ q.jetR = k.jetR /\ q.R_max = k.R_max
         /\ Len(jet_qa_variables[q]["jet_pt"])
              # Len(jet_qa_variables[k]["jet_pt"])

----------------------------------------------------------------------------
\* The pairs (N, beta) the grid is said to hold for a basis size k: N from 1
\* to k - 2 with beta 0.5, 1 and 2, then N = k - 1 with beta 1 and 2
GridPairs(k) ==
  [ j \in 1..(3 * (k - 2)) |->
      << ((j - 1) \div 3) + 1, << 1, 2, 4 >>[((j - 1) % 3) + 1] >> ]
  \o << << k - 1, 2 >>, << k - 1, 4 >> >>

\* N_list and beta_list hold these pairs, 3k - 4 of them, none twice, no N
\* below 1
GridIs(k) ==
  /\ Len(grid.N_list) = 3 * k - 4
  /\ Len(grid.beta_list) = 3 * k - 4
  /\ [ j \in DOMAIN grid.N_list |-> << grid.N_list[j], grid.beta_list[j] >> ]
       = GridPairs(k)
  /\ \A i, j \in DOMAIN grid.N_list :
       grid.N_list[i] = grid.N_list[j] /\ grid.beta_list[i] = grid.beta_list[j]
         => i = j
  /\ \A j \in DOMAIN grid.N_list : grid.N_list[j] >= 1

(* C16 (as claimed): for every configured K, once the constructor has      *)
(* built them, N_list and beta_list hold exactly the pairs (N, beta) with  *)
(* N = 1..K-2 and beta in {0.5, 1, 2} followed by N = K-1 with beta in     *)
(* {1, 2}: both have length 3K - 4, no pair is repeated and no N is below  *)
(* 1.                                                                      *)
C16_GridForEveryK ==
  grid # NoGrid => GridIs(Max(config_K))

(* C16 (amended): the same, for every configured K of at least 2.  (K = 1  *)
(* gives the two pairs (0, 1) and (0, 2).)                                 *)
C16_GridFromTwo ==
  grid # NoGrid /\ Max(config_K) >= 2 => GridIs(Max(config_K))

\* The grid of a configuration whose largest K is not its last entry
C16_Witness ==
  /\ grid # NoGrid
  /\ Len(config_K) = 2
  /\ config_K[1] > config_K[2]
  /\ Max(config_K) = 4
  /\ Len(grid.N_list) = 8

----------------------------------------------------------------------------
\* Number of four-vectors of a padded list that are a constituent's
RECURSIVE NumConstituents(_)
NumConstituents(particle_list) ==
  IF particle_list = << >> THEN 0
  ELSE (IF Head(particle_list).vec[1] > 0 THEN Head(particle_list).n ELSE 0)
       + NumConstituents(Tail(particle_list))

(* C17: for every recorded jet, multiplicity_0000 >= multiplicity_0150 >=  *)
(* multiplicity_0500 >= multiplicity_1000 >= 0, and multiplicity_0000 is   *)
(* the jet's constituent count: the number of non-zero four-vectors the    *)
(* jet has in the four-vector series of the same key.                      *)
C17_MultiplicityOrdered ==
  \A k \in DOMAIN jet_qa_variables :
    LET qa == jet_qa_variables[k]
        fv == four_vectors[k].jet_constituent_four_vectors
    IN  /\ Len(qa["multiplicity_0150"]) = Len(qa["multiplicity_0000"])
        /\ Len(qa["multiplicity_0500"]) = Len(qa["multiplicity_0000"])
        /\ Len(qa["multiplicity_1000"]) = Len(qa["multiplicity_0000"])
        /\ \A j \in DOMAIN qa["multiplicity_0000"] :
             /\ qa["multiplicity_0000"][j] >= qa["multiplicity_0150"][j]
             /\ qa["multiplicity_0150"][j] >= qa["multiplicity_0500"][j]
             /\ qa["multiplicity_0500"][j] >= qa["multiplicity_1000"][j]
             /\ qa["multiplicity_1000"][j] >= 0
             /\ j \in DOMAIN fv =>
                  qa["multiplicity_0000"][j] = NumConstituents(fv[j])

\* A jet of two constituents, one of them between 0.15 and 0.5 GeV, and a
\* jet of 800 constituents below 0.15 GeV
C17_Witness ==
  /\ \E k \in DOMAIN jet_qa_variables :
       \E j \in DOMAIN jet_qa_variables[k]["multiplicity_0000"] :
         /\ jet_qa_variables[k]["multiplicity_0000"][j] = 2
         /\ jet_qa_variables[k]["multiplicity_0150"][j] = 2
         /\ jet_qa_variables[k]["multiplicity_0500"][j] = 1
         /\ jet_qa_variables[k]["multiplicity_1000"][j] = 1
  /\ \E k \in DOMAIN jet_qa_variables :
       \E j \in DOMAIN jet_qa_variables[k]["multiplicity_0000"] :
         /\ jet_qa_variables[k]["multiplicity_0000"][j] = 800
         /\ jet_qa_variables[k]["multiplicity_0150"][j] = 0

----------------------------------------------------------------------------
(* C18: every jet recorded under 'hard' has bin_min <= pt <= bin_max, as   *)
(* has every selected hard jet; every selected combined jet, and so every  *)
(* jet recorded under 'combined_matched', has pt >= bin_min / 5; every jet *)
(* recorded under 'combined' has bin_min < pt < bin_max.                   *)
C18_BinAcceptance ==
  /\ \A k \in DOMAIN jet_qa_variables :
       \A v \in Range(jet_qa_variables[k]["jet_pt"]) :
         /\ k.label = "hard" => k.jet_pt_bin[1] <= v /\ v <= k.jet_pt_bin[2]
         /\ k.label = "combined" => k.jet_pt_bin[1] < v /\ v < k.jet_pt_bin[2]
         /\ k.label = "combined_matched" => 5 * v >= k.jet_pt_bin[1]
  /\ Analysed =>
       /\ \A c \in DOMAIN jets_combined_selected :
            5 * jets_combined_selected[c].pt >= LastConfig.jet_pt_bin[1]
       /\ \A h \in DOMAIN jets_hard_selected :
            /\ LastConfig.jet_pt_bin[1] <= jets_hard_selected[h].pt
            /\ jets_hard_selected[h].pt <= LastConfig.jet_pt_bin[2]

\* A jet recorded under 'combined_matched' with pt above bin_max while the
\* 'combined' series of the same configuration is empty, and a hard jet
\* recorded at bin_max
C18_Witness ==
  /\ \E k \in DOMAIN jet_qa_variables :
       /\ k.label = "combined_matched"
       /\ \E v \in Range(jet_qa_variables[k]["jet_pt"]) : v > k.jet_pt_bin[2]
       /\ jet_qa_variables[Key("combined", k.jetR, k.jet_pt_bin, k.R_max)]["jet_pt"]
            = << >>
  /\ \E k \in DOMAIN jet_qa_variables :
       /\ k.label = "hard"
       /\ \E v \in Range(jet_qa_variables[k]["jet_pt"]) : v = k.jet_pt_bin[2]

----------------------------------------------------------------------------
\* The series new is the series old with entries added at its end
Extends(old, new) ==
  Len(old) <= Len(new) /\ SubSeq(new, 1, Len(old)) = old

(* C19: every step leaves the entries a series of jet_variables,           *)
(* four_vectors, jet_qa_variables or delta_pt_random_cone already has in   *)
(* place and at most adds entries at its end; the output store is written  *)
(* at most once, in a step taken when no row of the dataframe is left,     *)
(* which changes no series and ends the run; a store written to its end    *)
(* holds the series as they are at the end.                                *)
C19_AppendOnlyFlushedOnce ==
  /\ [][ /\ \A k \in DOMAIN jet_qa_variables :
              /\ \A o \in DOMAIN jet_qa_variables[k] :
                   Extends(jet_qa_variables[k][o], jet_qa_variables'[k][o])
              /\ \A o \in DOMAIN jet_variables[k] :
                   Extends(jet_variables[k][o], jet_variables'[k][o])
              /\ Extends(four_vectors[k].jet_constituent_four_vectors,
                         four_vectors'[k].jet_constituent_four_vectors)
         /\ Extends(delta_pt_random_cone, delta_pt_random_cone')
         /\ written' # written \/ hf' # hf =>
              /\ pc = "loop"
              /\ df_fjparticles = << >>
              /\ written = 0
              /\ hf = << >>
              /\ pc' \in { "done", "crashed" }
              /\ written' = (IF pc' = "done" THEN 1 ELSE 0)
              /\ UNCHANGED << jet_variables, four_vectors, jet_qa_variables,
                              delta_pt_random_cone >> ]_vars
  /\ [](/\ written <= 1
        /\ pc = "done" <=> written = 1
        /\ written = 1 =>
             /\ df_fjparticles = << >>
             /\ \A k \in DOMAIN jet_qa_variables :
                  /\ hf[Dataset("X_four_vectors", k)]
                       = four_vectors[k].jet_constituent_four_vectors
                  /\ \A o \in DOMAIN jet_qa_variables[k] :
                       hf[Dataset(o, k)] = jet_qa_variables[k][o]
             /\ hf[Dataset("delta_pt_random_cone", NoKey)] = delta_pt_random_cone)

\* The store written at the end of two analysed events, with a series of
\* two entries
C19_Witness ==
  /\ written = 1
  /\ Len(delta_pt_random_cone) = 2
  /\ \E k \in DOMAIN jet_qa_variables :
       /\ Len(jet_qa_variables[k]["jet_pt"]) = 2
       /\ jet_qa_variables[k]["jet_pt"][1] # jet_qa_variables[k]["jet_pt"][2]
       /\ hf[Dataset("jet_pt", k)] = jet_qa_variables[k]["jet_pt"]

----------------------------------------------------------------------------
(* C20 (as claimed): in every run that reaches the output stage the store  *)
(* holds, for every accumulation key, the N-subjettiness array, the        *)
(* four-vector array and a label array, each with one entry per jet of the *)
(* key, and the labels follow from the path of the input file alone: all 1 *)
(* when it contains 'jewel_PbPb', all 0 when it contains 'jewel_pp'.       *)
C20_LabelledOutput ==
  hf # << >> =>
    \A k \in DOMAIN jet_qa_variables :
      LET n_jets == Len(jet_qa_variables[k]["jet_pt"])
      IN  /\ { Dataset("X_Nsub", k), Dataset("y", k),
               Dataset("X_four_vectors", k) } \subseteq DOMAIN hf
          /\ Len(hf[Dataset("X_Nsub", k)]) = n_jets
          /\ Len(hf[Dataset("X_four_vectors", k)]) = n_jets
          /\ Len(hf[Dataset("y", k)]) = n_jets
          /\ Contains("jewel_PbPb", input_file) =>
               \A j \in 1..n_jets : hf[Dataset("y", k)][j] = 1
          /\ Contains("jewel_pp", input_file) =>
               \A j \in 1..n_jets : hf[Dataset("y", k)][j] = 0

----------------------------------------------------------------------------
(* C23: after every completed event (the run stands between two events or  *)
(* has written its output) all per-jet series of a key have one length:    *)
(* the n_subjettiness series, jet_constituent_four_vectors, jet_pt,        *)
(* jet_angularity, jet_mass, jet_theta_g, jet_subjet_z, hadron_z and the   *)
(* four multiplicity series; under 'combined_matched' also delta_pt,       *)
(* matched_deltaR and matched_pt.                                          *)
C23_SeriesAligned ==
  pc \in { "loop", "done" } =>
    \A k \in DOMAIN jet_qa_variables :
      LET n == Len(jet_qa_variables[k]["jet_pt"])
      IN  /\ \A o \in DOMAIN jet_variables[k] : Len(jet_variables[k][o]) = n
          /\ Len(four_vectors[k].jet_constituent_four_vectors) = n
          /\ \A o \in { "jet_angularity", "jet_mass", "jet_theta_g",
                        "jet_subjet_z", "hadron_z", "multiplicity_0000",
                        "multiplicity_0150", "multiplicity_0500",
                        "multiplicity_1000" } :
               Len(jet_qa_variables[k][o]) = n
          /\ k.label = "combined_matched" =>
               \A o \in { "delta_pt", "matched_deltaR", "matched_pt" } :
                 Len(jet_qa_variables[k][o]) = n

\* Two completed events that left a key of each label with entries, one of
\* them with a selected combined jet outside the bin
C23_Witness ==
  /\ pc = "loop"
  /\ Len(delta_pt_random_cone) = 2
  /\ \A label \in { "hard", "combined", "combined_matched" } :
       \E k \in DOMAIN jet_qa_variables :
         k.label = label /\ Len(jet_qa_variables[k]["jet_pt"]) >= 1
  /\ \E k \in DOMAIN jet_qa_variables :
       /\ k.label = "combined_matched"
       /\ \E v \in Range(jet_qa_variables[k]["jet_pt"]) : v > k.jet_pt_bin[2]

----------------------------------------------------------------------------
(* C24: the matching information of a configuration comes from that        *)
(* configuration alone.  After a configuration was analysed a jet with no  *)
(* jet of the other collection inside the matching distance has an empty   *)
(* candidate list and no match, whatever was linked to the same jet in the *)
(* configurations and events before; no jet holds more candidates than the *)
(* other collection has jets; and the step that starts an event holds no   *)
(* jets and no user_info.                                                  *)
C24_NoLeakBetweenConfigurations ==
  /\ [](Analysed =>
          LET Near(c, h) ==
                100 * delta_R2(jets_combined_selected[c], jets_hard_selected[h])
                  < (jet_matching_distance * LastConfig.jetR)
                    * (jet_matching_distance * LastConfig.jetR)
          IN  /\ DOMAIN info_combined = DOMAIN jets_combined_selected
              /\ DOMAIN info_hard = DOMAIN jets_hard_selected
              /\ \A c \in DOMAIN info_combined :
                   /\ NumCandidates(info_combined[c]) <= Len(jets_hard_selected)
                   /\ (\A h \in DOMAIN jets_hard_selected : ~Near(c, h)) =>
                        /\ info_combined[c].matching_candidates = << >>
                        /\ info_combined[c].match = 0
              /\ \A h \in DOMAIN info_hard :
                   /\ NumCandidates(info_hard[h]) <= Len(jets_combined_selected)
                   /\ (\A c \in DOMAIN jets_combined_selected : ~Near(c, h)) =>
                        /\ info_hard[h].matching_candidates = << >>
                        /\ info_hard[h].match = 0)
  /\ [][ pc = "loop" /\ pc' = "jets" =>
           /\ info_combined' = << >>
           /\ info_hard' = << >>
           /\ jets_combined_selected' = << >>
           /\ jets_hard_selected' = << >> ]_vars

\* The second event of a run, in a configuration with subtraction where a
\* hard jet is left without any combined jet, after a configuration of the
\* same event and radius in which hard jets were recorded
C24_Witness ==
  /\ Analysed
  /\ Len(delta_pt_random_cone) = 2
  /\ max_distance[LastConfig.i] # 0
  /\ jets_combined_selected = << >>
  /\ jets_hard_selected # << >>
  /\ info_hard[1].matching_candidates = << >>
  /\ fj_particles_combined[1] # << >>

----------------------------------------------------------------------------
(* pythia_parton_hadron.py: the names built at run time.  A string is the  *)
(* sequence of its pieces: the constant text of a format is one piece, a   *)
(* formatted number one piece per character.                               *)

None == "None"

\* A number of the YAML configuration: an int, or a float with one decimal
\* (n counts tenths)
PyInt(n) == [ kind |-> "int", n |-> n ]
PyFloat(n) == [ kind |-> "float", n |-> n ]

\* The value, in tenths
Tenths(x) == IF x.kind = "int" THEN 10 * x.n ELSE x.n

Digit(d) == << "0", "1", "2", "3", "4", "5", "6", "7", "8", "9" >>[d + 1]

RECURSIVE Digits(_)
Digits(n) ==
  IF n < 10 THEN << Digit(n) >> ELSE Digits(n \div 10) \o << Digit(n % 10) >>

\* str(x) of Python
str(x) ==
  IF x.kind = "int" THEN Digits(x.n)
  ELSE Digits(x.n \div 10) \o << "." >> \o Digits(x.n % 10)

\* s.replace('.', '')
replace_dot(s) == SelectSeq(s, LAMBDA c : c # ".")

\* lines 151, 564, 582, 663, 1005, 1020
jetR_str(jetR) == replace_dot(str(jetR))

\* lines 154, 825
R_label(jetR) == replace_dot(str(jetR)) \o << "Scaled" >>

\* lines 247, 798, 867, 1025
label(jetR, beta) ==
  replace_dot(<< "R" >> \o str(jetR) \o << "_" >> \o str(beta) \o << "Scaled" >>)

\* 'prefix%s' % lab
Name(prefix, lab) == << prefix >> \o lab

RECURSIVE Concat(_)
Concat(ss) == IF ss = << >> THEN << >> ELSE Head(ss) \o Concat(Tail(ss))

\* One histogram made by initialize_hist: its name, the index of the jetR it
\* was made for and whether it was appended to the hist_list of that jetR
Hist(r, name, listed) == [ r |-> r, name |-> name, listed |-> listed ]

\* initialize_hist, lines 156-243: the histograms of one jetR
HistsOfR(lev, r, jetR) ==
  LET H(prefix) == Hist(r, Name(prefix, R_label(jetR)), TRUE)
  IN  (IF lev \in { None, "ch" }
       THEN << H("hJetPt_ch_R"), H("hNconstit_Pt_ch_R") >> ELSE << >>)
      \o (IF lev \in { None, "h" }
          THEN << H("hJetPt_h_R"), H("hNconstit_Pt_h_R") >> ELSE << >>)
      \o (IF lev \in { None, "p" }
          THEN << H("hJetPt_p_R"), H("hNconstit_Pt_p_R") >> ELSE << >>)
      \o (IF lev = None
          THEN << H("hJetPtRes_R"), H("hResponse_JetPt_R"),
                  H("hNconstit_Pt_ch_PtBinCH60-80_R"),
                  H("hNconstit_Pt_h_PtBinCH60-80_R"),
                  H("hNconstit_Pt_p_PtBinCH60-80_R") >>
          ELSE << >>)

\* initialize_hist, lines 245-555 (use_SD is False): the histograms of one
\* (jetR, beta); hAng_JetPt_ch_MPIon_* is not appended to the hist_list
HistsOfBeta(lev, r, jetR, beta) ==
  LET H(prefix) == Hist(r, Name(prefix, label(jetR, beta)), TRUE)
  IN  (IF lev \in { None, "ch" }
       THEN << H("hAng_JetPt_ch_"),
               Hist(r, Name("hAng_JetPt_ch_MPIon_", label(jetR, beta)), FALSE) >>
       ELSE << >>)
      \o (IF lev \in { None, "h" } THEN << H("hAng_JetPt_h_") >> ELSE << >>)
      \o (IF lev \in { None, "p" } THEN << H("hAng_JetPt_p_") >> ELSE << >>)
      \o (IF lev = None
          THEN << H("hResponse_ang_"),
                  H("hResponse_ang_PtBinCH20-40_"),
                  H("hResponse_ang_PtBinCH40-60_"),
                  H("hResponse_ang_PtBinCH60-80_"),
                  H("hPhaseSpace_DeltaR_Pt_ch_"),
                  H("hPhaseSpace_ang_DeltaR_ch_"),
                  H("hPhaseSpace_ang_Pt_ch_"),
                  H("hPhaseSpace_DeltaR_Pt_p_"),
                  H("hPhaseSpace_ang_DeltaR_p_"),
                  H("hPhaseSpace_ang_Pt_p_"),
                  H("hPhaseSpace_DeltaR_Pt_ch_PtBinCH60-80_"),
                  H("hPhaseSpace_DeltaR_Pt_p_PtBinCH60-80_"),
                  H("hPhaseSpace_ang_DeltaR_ch_PtBinCH60-80_"),
                  H("hPhaseSpace_ang_DeltaR_p_PtBinCH60-80_"),
                  H("hPhaseSpace_ang_Pt_ch_PtBinCH60-80_"),
                  H("hPhaseSpace_ang_Pt_p_PtBinCH60-80_"),
                  H("hAnnulus_ang_ch_"),
                  H("hAnnulus_ang_ch_PtBinCH60-80_"),
                  H("hAnnulus_ang_p_"),
                  H("hAnnulus_ang_p_PtBinCH60-80_"),
                  H("hAngResidual_JetPt_"),
                  H("hAngDiff_JetPt_"),
                  H("hResponse_JetPt_ang_ch_"),
                  H("hResponse_JetPt_ang_h_") >>
          ELSE << >>)

\* initialize_hist, lines 148-555: every histogram, in the order of creation
Created(lev, c) ==
  Concat([ r \in DOMAIN c.jetR |->
             HistsOfR(lev, r, c.jetR[r])
             \o Concat([ b \in DOMAIN c.betas |->
                           HistsOfBeta(lev, r, c.jetR[r], c.betas[b]) ]) ])

\* The last index of s that bears the name n: a later setattr replaces an
\* earlier one
LastOf(s, n) ==
  LET hit == { i \in DOMAIN s : s[i].name = n }
  IN  CHOOSE i \in hit : \A j \in hit : j <= i

----------------------------------------------------------------------------
(* pythia_parton_hadron.py: jets and fills *)

\* Bounds of the pythia_parton_hadron runs
MaxNev == 2
MaxRejected == 1

max_eta_hadron == 9
annulus_plots_num_r == 150

\* init_jet_tools, lines 584-585: SelectorPtMin(5.0) & SelectorAbsEtaMax(
\* max_eta_hadron - jetR)
jet_selector(jets, jetR) ==
  SelectSeq(jets, LAMBDA j : /\ j.pt >= 100
                             /\ Abs(j.rap) <= max_eta_hadron - Tenths(jetR))

\* lines 672-674
find_jets(parts, jetR) ==
  sorted_by_pt(jet_selector(inclusive_jets(parts, Tenths(jetR)), jetR))

\* Variant: a jet matches up to the full jet radius
MatchedWithin_FullRadius(a, b, jetR) ==
  delta_R2(a, b) < Tenths(jetR) * Tenths(jetR)

\* lines 693, 704: a.delta_R(b) < jetR / 2.
MatchedWithin(a, b, jetR) ==
  4 * delta_R2(a, b) < Tenths(jetR) * Tenths(jetR)

RECURSIVE SumAngle(_, _)
SumAngle(cs, jet) ==
  IF cs = << >> THEN 0
  ELSE Head(cs).n * Head(cs).pt * delta_R2(Head(cs), jet)
       + SumAngle(Tail(cs), jet)

\* fjext.lambda_beta_kappa(jet, beta, kappa, jetR) with kappa = 1, up to a
\* positive factor: the pt-weighted sum of the constituents' distances to
\* the jet axis (their number of pt units where beta is 0)
lambda_beta_kappa(jet, beta, kappa, jetR) ==
  IF Tenths(beta) = 0 THEN jet.pt ELSE SumAngle(jet.constituents, jet)

\* A quotient: what it divides by and whether that is zero
Div(by, den) == [ by |-> by, zero |-> (den = 0) ]

\* x / (lambda + 1e-11): lambda is a sum of non-negative terms
DivEps(by, lam) == [ by |-> by, zero |-> (lam < 0) ]

\* getattr(self, name).Fill(...), n times, with the quotients its arguments
\* compute
FillOp(name, n, divs) == [ name |-> name, n |-> n, divs |-> divs ]

\* lines 882-887, 901, 923, 940 and 843: lo <= jet.pt() < hi, in GeV
PtBinCH(jet, lo, hi) == 20 * lo <= jet.pt /\ jet.pt < 20 * hi

\* fill_RMs, lines 892-911 and 914-933: the fills of one constituent
PhaseSpace(g, lab, jetR, binned, n1, n2, n3, b1, b2, b3) ==
  LET byR == { Div("jetR", Tenths(jetR)) }
  IN  << FillOp(Name(n1, lab), g.n, byR),
         FillOp(Name(n2, lab), g.n, byR),
         FillOp(Name(n3, lab), g.n, { }) >>
      \o (IF binned
          THEN << FillOp(Name(b1, lab), g.n, byR),
                  FillOp(Name(b2, lab), g.n, byR),
                  FillOp(Name(b3, lab), g.n, { }) >>
          ELSE << >>)

\* Variant: the residual is filled without testing lp
Residual_Unguarded(lab, lp) ==
  << FillOp(Name("hAngResidual_JetPt_", lab), 1, { Div("lp", lp) }) >>

\* fill_RMs, lines 948-949
Residual(lab, lp) ==
  IF lp # 0
  THEN << FillOp(Name("hAngResidual_JetPt_", lab), 1, { Div("lp", lp) }) >>
  ELSE << >>

\* fill_RMs, lines 859-958 (use_SD is False)
fill_RMs(jetR, beta, jp, jh, jch) ==
  LET lp == lambda_beta_kappa(jp, beta, 1, jetR)
      lch == lambda_beta_kappa(jch, beta, 1, jetR)
      lab == label(jetR, beta)
      F(prefix) == FillOp(Name(prefix, lab), 1, { })
      binned == PtBinCH(jch, 60, 80)
      byNumR == Div("annulus_plots_num_r", annulus_plots_num_r)
      A(prefix, by, lam) ==
        FillOp(Name(prefix, lab), annulus_plots_num_r,
               { byNumR, DivEps(by, lam) })
  IN  (IF level \in { None, "ch" } THEN << F("hAng_JetPt_ch_") >> ELSE << >>)
      \o (IF level \in { None, "h" } THEN << F("hAng_JetPt_h_") >> ELSE << >>)
      \o (IF level \in { None, "p" } THEN << F("hAng_JetPt_p_") >> ELSE << >>)
      \o (IF level # None THEN << >>
          ELSE << F("hResponse_ang_") >>
               \o (IF PtBinCH(jch, 20, 40)
                   THEN << F("hResponse_ang_PtBinCH20-40_") >>
                   ELSE IF PtBinCH(jch, 40, 60)
                   THEN << F("hResponse_ang_PtBinCH40-60_") >>
                   ELSE IF PtBinCH(jch, 60, 80)
                   THEN << F("hResponse_ang_PtBinCH60-80_") >>
                   ELSE << >>)
               \o Concat([ i \in DOMAIN jch.constituents |->
                    PhaseSpace(jch.constituents[i], lab, jetR, binned,
                               "hPhaseSpace_DeltaR_Pt_ch_",
                               "hPhaseSpace_ang_DeltaR_ch_",
                               "hPhaseSpace_ang_Pt_ch_",
                               "hPhaseSpace_DeltaR_Pt_ch_PtBinCH60-80_",
                               "hPhaseSpace_ang_DeltaR_ch_PtBinCH60-80_",
                               "hPhaseSpace_ang_Pt_ch_PtBinCH60-80_") ])
               \o Concat([ i \in DOMAIN jp.constituents |->
                    PhaseSpace(jp.constituents[i], lab, jetR, binned,
                               "hPhaseSpace_DeltaR_Pt_p_",
                               "hPhaseSpace_ang_DeltaR_p_",
                               "hPhaseSpace_ang_Pt_p_",
                               "hPhaseSpace_DeltaR_Pt_p_PtBinCH60-80_",
                               "hPhaseSpace_ang_DeltaR_p_PtBinCH60-80_",
                               "hPhaseSpace_ang_Pt_p_PtBinCH60-80_") ])
               \o (IF annulus_plots_num_r = 0 THEN << >>
                   ELSE << A("hAnnulus_ang_p_", "lp + 1e-11", lp),
                           A("hAnnulus_ang_ch_", "lch + 1e-11", lch) >>
                        \o (IF binned
                            THEN << A("hAnnulus_ang_p_PtBinCH60-80_",
                                      "lp + 1e-11", lp),
                                    A("hAnnulus_ang_ch_PtBinCH60-80_",
                                      "lch + 1e-11", lch) >>
                            ELSE << >>))
               \o << F("hAngDiff_JetPt_") >>
               \o Residual(lab, lp)
               \o << F("hResponse_JetPt_ang_ch_"),
                     F("hResponse_JetPt_ang_h_") >>)

\* fill_jet_histograms, lines 823-853
fill_jet_histograms(jetR, jp, jh, jch) ==
  LET F(prefix) == FillOp(Name(prefix, R_label(jetR)), 1, { })
  IN  (IF level \in { None, "ch" }
       THEN << F("hJetPt_ch_R"), F("hNconstit_Pt_ch_R") >> ELSE << >>)
      \o (IF level \in { None, "h" }
          THEN << F("hJetPt_h_R"), F("hNconstit_Pt_h_R") >> ELSE << >>)
      \o (IF level \in { None, "p" }
          THEN << F("hJetPt_p_R"), F("hNconstit_Pt_p_R") >> ELSE << >>)
      \o (IF level # None THEN << >>
          ELSE (IF jp.pt # 0
                THEN << FillOp(Name("hJetPtRes_R", R_label(jetR)), 1,
                               { Div("jp.pt()", jp.pt) }) >>
                ELSE << >>)
               \o << F("hResponse_JetPt_R") >>
               \o (IF PtBinCH(jch, 60, 80)
                   THEN << F("hNconstit_Pt_ch_PtBinCH60-80_R"),
                           F("hNconstit_Pt_h_PtBinCH60-80_R"),
                           F("hNconstit_Pt_p_PtBinCH60-80_R") >>
                   ELSE << >>))
      \o Concat([ b \in DOMAIN config.betas |->
                    fill_RMs(jetR, config.betas[b], jp, jh, jch) ])

\* fill_MPI_histograms, lines 795-802
fill_MPI_histograms(jetR, jet) ==
  [ b \in DOMAIN config.betas |->
      FillOp(Name("hAng_JetPt_ch_MPIon_", label(jetR, config.betas[b])),
             1, { }) ]

\* The part of the state a pass works on
Work ==
  [ hists |-> hists, counts |-> counts, tw |-> tw, divisions |-> divisions,
    missing |-> << >> ]

\* One getattr(self, name).Fill(...): the lookup, then the arguments, then
\* the fill
Fill(s, o) ==
  IF o.name \notin DOMAIN attr
  THEN [ s EXCEPT !.missing = << "AttributeError" >> \o o.name ]
  ELSE IF \E d \in o.divs : d.zero
  THEN [ s EXCEPT !.divisions = @ \cup o.divs,
                  !.missing = << "ZeroDivisionError" >> ]
  ELSE [ s EXCEPT !.divisions = @ \cup o.divs,
                  !.hists[attr[o.name]].fills = @ + o.n ]

\* The fills of a sequence, up to the first exception
RECURSIVE FillAll(_, _)
FillAll(s, ops) ==
  IF ops = << >> \/ s.missing # << >> THEN s
  ELSE FillAll(Fill(s, Head(ops)), Tail(ops))

\* A jet as a tree branch holds it
Branch(jet) == [ pt |-> jet.pt, rap |-> jet.rap, phi |-> jet.phi ]

\* fill_matched_jet_tree, lines 728-733
fill_matched_jet_tree(s, tw_name, iev_, jp, jh, jchh) ==
  [ s EXCEPT !.tw[tw_name] =
      Append(@, [ iev |-> iev_, ch |-> Branch(jchh), h |-> Branch(jh),
                  p |-> Branch(jp) ]) ]

\* fill_unmatched_jet_tree, lines 769-772, for each jet of the level
RECURSIVE fill_unmatched_jet_tree(_, _, _, _)
fill_unmatched_jet_tree(s, tw_name, iev_, jets) ==
  IF jets = << >> THEN s
  ELSE fill_unmatched_jet_tree(
         [ s EXCEPT !.tw[tw_name] =
             Append(@, [ iev |-> iev_, level |-> level,
                         jet |-> Branch(Head(jets)) ]) ],
         tw_name, iev_, Tail(jets))

\* Variant: a ch jet without a unique hadron-level jet is not counted
RECURSIVE match_jets_Uncounted(_, _, _, _, _, _, _, _, _)
match_jets_Uncounted(s, i, jets_p, jets_h, jets_ch, jetR, iev_, count1, count2) ==
  IF i > Len(jets_ch) \/ s.missing # << >>
  THEN [ s |-> s, count1 |-> count1, count2 |-> count2 ]
  ELSE LET jchh == jets_ch[i]
           drhh_list ==
             SelectSeq(jets_h, LAMBDA jh : MatchedWithin(jchh, jh, jetR))
       IN  IF Len(drhh_list) # 1
           THEN match_jets_Uncounted(s, i + 1, jets_p, jets_h, jets_ch, jetR,
                                     iev_, count1, count2)
           ELSE LET jh == drhh_list[1]
                    dr_list ==
                      SelectSeq(jets_p, LAMBDA jp : MatchedWithin(jh, jp, jetR))
                IN  IF Len(dr_list) # 1
                    THEN match_jets_Uncounted(s, i + 1, jets_p, jets_h, jets_ch,
                                              jetR, iev_, count1, count2 + 1)
                    ELSE match_jets_Uncounted(
                           FillAll(fill_matched_jet_tree(
                                     s, Name("tw_R", jetR_str(jetR)), iev_,
                                     dr_list[1], jh, jchh),
                                   fill_jet_histograms(jetR, dr_list[1], jh, jchh)),
                           i + 1, jets_p, jets_h, jets_ch, jetR, iev_,
                           count1, count2)

\* find_jets_fill_trees, lines 687-717: the loop over the ch jets
RECURSIVE match_jets(_, _, _, _, _, _, _, _, _)
match_jets(s, i, jets_p, jets_h, jets_ch, jetR, iev_, count1, count2) ==
  IF i > Len(jets_ch) \/ s.missing # << >>
  THEN [ s |-> s, count1 |-> count1, count2 |-> count2 ]
  ELSE LET jchh == jets_ch[i]
           drhh_list ==
             SelectSeq(jets_h, LAMBDA jh : MatchedWithin(jchh, jh, jetR))
       IN  IF Len(drhh_list) # 1
           THEN match_jets(s, i + 1, jets_p, jets_h, jets_ch, jetR, iev_,
                           count1 + 1, count2)
           ELSE LET jh == drhh_list[1]
                    dr_list ==
                      SelectSeq(jets_p, LAMBDA jp : MatchedWithin(jh, jp, jetR))
                IN  IF Len(dr_list) # 1
                    THEN match_jets(s, i + 1, jets_p, jets_h, jets_ch, jetR,
                                    iev_, count1, count2 + 1)
                    ELSE match_jets(
                           FillAll(fill_matched_jet_tree(
                                     s, Name("tw_R", jetR_str(jetR)), iev_,
                                     dr_list[1], jh, jchh),
                                   fill_jet_histograms(jetR, dr_list[1], jh, jchh)),
                           i + 1, jets_p, jets_h, jets_ch, jetR, iev_,
                           count1, count2)

\* find_jets_fill_trees, lines 659-723, from the r-th jetR on
RECURSIVE find_jets_fill_trees(_, _, _, _, _)
find_jets_fill_trees(s, r, parts, iev_, MPIon) ==
  IF r > Len(config.jetR) \/ s.missing # << >> THEN s
  ELSE LET jetR == config.jetR[r]
           count1_name == Name("count1_R", jetR_str(jetR))
           count2_name == Name("count2_R", jetR_str(jetR))
           jets_p == find_jets(parts.p, jetR)
           jets_h == find_jets(parts.h, jetR)
           jets_ch == find_jets(parts.ch, jetR)
           jets == CASE level = "p" -> jets_p
                     [] level = "h" -> jets_h
                     [] OTHER -> jets_ch
           m == match_jets(s, 1, jets_p, jets_h, jets_ch, jetR, iev_,
                           s.counts[count1_name], s.counts[count2_name])
           after ==
             IF MPIon
             THEN FillAll(s, Concat([ j \in DOMAIN jets_ch |->
                                        fill_MPI_histograms(jetR, jets_ch[j]) ]))
             ELSE IF level # None
             THEN fill_unmatched_jet_tree(s, Name("tw_R", jetR_str(jetR)),
                                          iev_, jets)
             ELSE IF m.s.missing # << >> THEN m.s
             ELSE [ m.s EXCEPT !.counts =
                      [ [ @ EXCEPT ![count1_name] = m.count1 ]
                          EXCEPT ![count2_name] = m.count2 ] ]
       IN  find_jets_fill_trees(after, r + 1, parts, iev_, MPIon)

\* scale_jet_histograms, lines 1021-1022
RECURSIVE ScaleList(_, _, _)
ScaleList(s, ids, factor) ==
  IF ids = << >> THEN s
  ELSE ScaleList([ s EXCEPT !.hists[Head(ids)].scaled = Append(@, factor) ],
                 Tail(ids), factor)

\* scale_jet_histograms, lines 1024-1026
RECURSIVE ScaleMPI(_, _, _)
ScaleMPI(s, jetR, betas) ==
  IF betas = << >> \/ s.missing # << >> THEN s
  ELSE LET name == Name("hAng_JetPt_ch_MPIon_", label(jetR, Head(betas)))
       IN  ScaleMPI(IF name \in DOMAIN attr
                    THEN [ s EXCEPT !.hists[attr[name]].scaled =
                             Append(@, "MPI_scale_f") ]
                    ELSE [ s EXCEPT !.missing = << "AttributeError" >> \o name ],
                    jetR, Tail(betas))

\* scale_jet_histograms, lines 1017-1026, from the r-th jetR on
RECURSIVE scale_jet_histograms(_, _)
scale_jet_histograms(s, r) ==
  IF r > Len(config.jetR) \/ s.missing # << >> THEN s
  ELSE scale_jet_histograms(
         ScaleMPI(ScaleList(s, hist_list[Name("hist_list_R",
                                              jetR_str(config.jetR[r]))],
                            "scale_f"),
                  config.jetR[r], config.betas),
         r + 1)

----------------------------------------------------------------------------
(* pythia_parton_hadron.py: the run *)

\* Parton-level, hadron-level and charged-hadron-level particles of the
\* events of the MPI-off generator.  pt 100 is 5 GeV.
PythiaEvents ==
  { \* one parton; its hadrons stay together: a 60 GeV ch jet
    [ p |-> << P(1300, 0, 0, 1) >>,
      h |-> << P(700, 0, 0, 1), P(500, 1, 0, 1), P(100, 0, 1, 1) >>,
      ch |-> << P(700, 0, 0, 1), P(500, 1, 0, 1) >> ],
    \* two partons in one jet: a 30 GeV ch jet
    [ p |-> << P(500, 0, 0, 1), P(200, 1, 0, 1) >>,
      h |-> << P(400, 0, 0, 1), P(100, 1, 0, 2) >>,
      ch |-> << P(400, 0, 0, 1), P(100, 1, 0, 2) >> ],
    \* a neutral hadron leads the hadron-level jet away from the ch jet
    [ p |-> << P(1000, 3, 0, 1) >>,
      h |-> << P(600, 3, 0, 1), P(400, 0, 0, 1) >>,
      ch |-> << P(400, 0, 0, 1) >> ],
    \* nothing above 5 GeV
    [ p |-> << P(50, 0, 0, 1) >>,
      h |-> << P(30, 0, 0, 1), P(20, 1, 0, 1) >>,
      ch |-> << P(30, 0, 0, 1) >> ] }

\* Events of the MPI-on generator
PythiaMPIEvents ==
  { [ p |-> << P(500, 0, 0, 1) >>,
      h |-> << P(300, 0, 0, 1), P(200, 1, 0, 1) >>,
      ch |-> << P(300, 0, 0, 1) >> ],
    [ p |-> << P(50, 0, 0, 1) >>,
      h |-> << P(30, 0, 0, 1), P(20, 1, 0, 1) >>,
      ch |-> << P(30, 0, 0, 1) >> ] }

\* config['jetR'] and config['betas']
PythiaConfigs ==
  { [ jetR |-> << PyFloat(2), PyFloat(4) >>, betas |-> << PyFloat(15), PyInt(3) >> ],
    [ jetR |-> << PyFloat(2), PyFloat(4) >>, betas |-> << PyFloat(15), PyInt(15) >> ],
    [ jetR |-> << PyFloat(20), PyInt(20) >>, betas |-> << PyInt(1) >> ] }

\* pythia_parton_hadron.py and analysis_utils_obs.py never touch the state of
\* process_ppAA.py
NoProcessRun ==
  /\ thermal_model = TRUE
  /\ df_fjparticles = << >>
  /\ pc = "idle"
  /\ cfg = 0
  /\ fj_particles_hard = << >>
  /\ fj_particles_combined_beforeCS = << >>
  /\ fj_particles_combined = << >>
  /\ jets_combined_selected = << >>
  /\ jets_hard_selected = << >>
  /\ info_combined = << >>
  /\ info_hard = << >>
  /\ jet_variables = << >>
  /\ four_vectors = << >>
  /\ jet_qa_variables = << >>
  /\ delta_pt_random_cone = << >>
  /\ written = 0
  /\ input_file = << >>
  /\ hf = << >>
  /\ load_event_calls = 0
  /\ skipped = 0
  /\ config_K = << >>
  /\ grid = NoGrid

\* main, lines 1048-1050: --no-match-level must be one of these
Levels == { None, "p", "h", "ch" }

\* initialize_config (98-137) after main (1062-1063): args.nev below 1 is
\* raised to 1
InitPythia ==
  /\ level \in Levels
  /\ no_scale \in BOOLEAN
  /\ nev \in { IF n < 1 THEN 1 ELSE n : n \in 0..MaxNev }
  /\ config \in PythiaConfigs
  /\ py_pc = "config"
  /\ hNevents = 0
  /\ hNeventsMPI = 0
  /\ iev = 0
  /\ attr = << >>
  /\ hists = << >>
  /\ hist_list = << >>
  /\ counts = << >>
  /\ tw = << >>
  /\ divisions = { }
  /\ missing = << >>
  /\ rejected = [ next |-> 0, hadron |-> 0 ]
  /\ event = << >>
  /\ calls = << >>
  /\ NoRegParamCall
  /\ NoProcessRun

main_vars ==
  << thermal_model, df_fjparticles, pc, cfg, fj_particles_hard,
     fj_particles_combined_beforeCS, fj_particles_combined,
     jets_combined_selected, jets_hard_selected, info_combined, info_hard,
     jet_variables, four_vectors, jet_qa_variables, delta_pt_random_cone,
     written, input_file, hf, load_event_calls, skipped, config_K, grid,
     reg_vars >>

\* pythia_parton_hadron, lines 59 and 74: initialize_hist (143-555) and
\* init_jet_tools (561-597)
initialize_hist ==
  /\ py_pc = "config"
  /\ LET made == Created(level, config)
         names == { made[i].name : i \in DOMAIN made }
         radii == DOMAIN config.jetR
         Of(prefix) == { Name(prefix, jetR_str(config.jetR[r])) : r \in radii }
         ListOf(n) ==
           LET r == LastOf([ q \in radii |->
                               [ name |-> Name("hist_list_R",
                                               jetR_str(config.jetR[q])) ] ], n)
           IN  SelectSeq([ i \in DOMAIN made |-> i ],
                         LAMBDA i : made[i].r = r /\ made[i].listed)
     IN  /\ hists' = [ i \in DOMAIN made |->
                         [ name |-> made[i].name, fills |-> 0, scaled |-> << >> ] ]
         /\ attr' = [ n \in names |-> LastOf(made, n) ]
         /\ hist_list' = [ n \in Of("hist_list_R") |-> ListOf(n) ]
         /\ counts' = [ n \in Of("count1_R") \cup Of("count2_R") |-> 0 ]
         /\ tw' = [ n \in Of("tw_R") |-> << >> ]
  /\ py_pc' = "MPIoff"
  /\ iev' = 0
  /\ UNCHANGED << level, no_scale, nev, config, hNevents, hNeventsMPI,
                  divisions, missing, rejected, event, calls, main_vars >>

\* The counter of the pass under way, lines 607-610
Accepted == IF py_pc = "MPIon" THEN hNeventsMPI ELSE hNevents

\* calculate_events, lines 612-614: pythia.next() fails
next_fails ==
  /\ py_pc \in { "MPIoff", "MPIon" }
  /\ Accepted < nev
  /\ rejected.next + rejected.hadron < MaxRejected
  /\ rejected' = [ rejected EXCEPT !.next = @ + 1 ]
  /\ UNCHANGED << level, no_scale, nev, config, py_pc, hNevents, hNeventsMPI,
                  iev, attr, hists, hist_list, counts, tw, divisions, missing,
                  event, calls, main_vars >>

\* calculate_events, lines 612-621: forceHadronLevel() fails
forceHadronLevel_fails ==
  /\ py_pc \in { "MPIoff", "MPIon" }
  /\ Accepted < nev
  /\ rejected.next + rejected.hadron < MaxRejected
  /\ rejected' = [ rejected EXCEPT !.hadron = @ + 1 ]
  /\ UNCHANGED << level, no_scale, nev, config, py_pc, hNevents, hNeventsMPI,
                  iev, attr, hists, hist_list, counts, tw, divisions, missing,
                  event, calls, main_vars >>

\* calculate_events, lines 612-653: an event passes both steps
accept_event ==
  /\ py_pc \in { "MPIoff", "MPIon" }
  /\ Accepted < nev
  /\ \E parts \in (IF py_pc = "MPIon" THEN PythiaMPIEvents ELSE PythiaEvents) :
       LET MPIon == (py_pc = "MPIon")
           s == find_jets_fill_trees(Work, 1, parts, iev, MPIon)
       IN  /\ event' = parts
           /\ hNevents' = (IF MPIon THEN hNevents ELSE hNevents + 1)
           /\ hNeventsMPI' = (IF MPIon THEN hNeventsMPI + 1 ELSE hNeventsMPI)
           /\ calls' = Append(calls, [ MPIon |-> MPIon, iev |-> iev ])
           /\ hists' = s.hists
           /\ counts' = s.counts
           /\ tw' = s.tw
           /\ divisions' = s.divisions
           /\ missing' = s.missing
           /\ iev' = (IF s.missing = << >> THEN iev + 1 ELSE iev)
           /\ py_pc' = (IF s.missing = << >> THEN py_pc ELSE "crashed")
  /\ UNCHANGED << level, no_scale, nev, config, attr, hist_list, rejected,
                  main_vars >>

\* pythia_parton_hadron, lines 75-82: the MPI-off loop is over and
\* calculate_events(pythia_MPI, MPIon=True) begins
calculate_events_MPIon ==
  /\ py_pc = "MPIoff"
  /\ hNevents >= nev
  /\ py_pc' = "MPIon"
  /\ iev' = 0
  /\ UNCHANGED << level, no_scale, nev, config, hNevents, hNeventsMPI, attr,
                  hists, hist_list, counts, tw, divisions, missing, rejected,
                  event, calls, main_vars >>

\* pythia_parton_hadron, lines 85-93: fill_tree, scale_print_final_info
\* (987-1012) and the output
scale_print_final_info ==
  /\ py_pc = "MPIon"
  /\ hNeventsMPI >= nev
  /\ LET s == IF no_scale THEN Work
              ELSE IF hNevents = 0 \/ hNeventsMPI = 0
              THEN [ Work EXCEPT !.missing = << "ZeroDivisionError" >> ]
              ELSE scale_jet_histograms(Work, 1)
     IN  /\ hists' = s.hists
         /\ missing' = s.missing
         /\ py_pc' = (IF s.missing = << >> THEN "done" ELSE "crashed")
  /\ UNCHANGED << level, no_scale, nev, config, hNevents, hNeventsMPI, iev,
                  attr, hist_list, counts, tw, divisions, rejected, event,
                  calls, main_vars >>

NextPythia ==
  \/ initialize_hist
  \/ next_fails
  \/ forceHadronLevel_fails
  \/ accept_event
  \/ calculate_events_MPIon
  \/ scale_print_final_info

SpecPythia == InitPythia /\ [][NextPythia]_vars

\* PYTHIA goes on generating: an event that passes next() and
\* forceHadronLevel() comes after finitely many that do not
SpecPythiaFair == SpecPythia /\ WF_vars(accept_event)

----------------------------------------------------------------------------
(* Vocabulary of the pythia_parton_hadron claims *)

\* The step is a call of find_jets_fill_trees that returned
EventAccepted == py_pc \in { "MPIoff", "MPIon" } /\ calls' # calls /\ py_pc' = py_pc

CountIn(c, prefix, r) == c[Name(prefix, jetR_str(config.jetR[r]))]
TreeIn(t, r) == t[Name("tw_R", jetR_str(config.jetR[r]))]
Count1(r) == CountIn(counts, "count1_R", r)
Count2(r) == CountIn(counts, "count2_R", r)
Tree(r) == TreeIn(tw, r)

----------------------------------------------------------------------------
(* C21: in matching mode with MPI off every ch jet of an event is          *)
(* accounted for exactly once: for each jetR the number of selected ch     *)
(* jets is the increase of count1 plus the increase of count2 plus the     *)
(* number of triples filled into the tree.  The counters never decrease,   *)
(* and neither an MPI-on pass nor a pass at a single level changes them.   *)
C21_EveryChJetAccounted ==
  [][ (py_pc = "MPIoff" \/ py_pc = "MPIon") =>
        /\ (\A n \in DOMAIN counts : counts'[n] >= counts[n])
        /\ (py_pc = "MPIon" \/ level # None) => counts' = counts
        /\ (EventAccepted /\ py_pc = "MPIoff" /\ level = None) =>
             \A r \in DOMAIN config.jetR :
               Len(find_jets(event'.ch, config.jetR[r]))
                 = (CountIn(counts', "count1_R", r) - Count1(r))
                   + (CountIn(counts', "count2_R", r) - Count2(r))
                   + (Len(TreeIn(tw', r)) - Len(Tree(r))) ]_vars

\* A matching run that has rejected a ch jet at the first criterion, one at
\* the second, and filled a triple
C21_Witness ==
  /\ level = None
  /\ py_pc = "MPIon"
  /\ \E r \in DOMAIN config.jetR : Count1(r) > 0
  /\ \E r \in DOMAIN config.jetR : Count2(r) > 0
  /\ \E r \in DOMAIN config.jetR : Tree(r) # << >>

\* The rows a step adds to the tree of the r-th jetR
NewRows(r) == SubSeq(TreeIn(tw', r), Len(Tree(r)) + 1, Len(TreeIn(tw', r)))

\* The jets of js closer to the jet a than half the jet radius
Within(a, js, jetR) ==
  { j \in DOMAIN js : 4 * delta_R2(a, js[j]) < Tenths(jetR) * Tenths(jetR) }

----------------------------------------------------------------------------
(* C26: a (ch, h, p) triple is written to the tree, and the histograms are *)
(* filled for it, only if h is the one and only hadron-level jet closer to *)
(* ch than jetR/2 and p the one and only parton-level jet closer to h than *)
(* jetR/2; a ch jet is rejected at the second criterion only after its     *)
(* hadron-level match was found unique.                                    *)
C26_TripleNeedsUniqueMatches ==
  [][ (EventAccepted /\ py_pc = "MPIoff" /\ level = None) =>
        \A r \in DOMAIN config.jetR :
          LET jetR == config.jetR[r]
              jets_ch == find_jets(event'.ch, jetR)
              jets_h == find_jets(event'.h, jetR)
              jets_p == find_jets(event'.p, jetR)
              unique_h == { c \in DOMAIN jets_ch :
                              Cardinality(Within(jets_ch[c], jets_h, jetR)) = 1 }
              response == Name("hResponse_JetPt_R", R_label(jetR))
          IN  /\ \A i \in DOMAIN NewRows(r) :
                   LET row == NewRows(r)[i]
                   IN  /\ \E c \in DOMAIN jets_ch : Branch(jets_ch[c]) = row.ch
                       /\ \E h \in DOMAIN jets_h :
                            /\ Branch(jets_h[h]) = row.h
                            /\ Within(row.ch, jets_h, jetR) = { h }
                       /\ \E p \in DOMAIN jets_p :
                            /\ Branch(jets_p[p]) = row.p
                            /\ Within(row.h, jets_p, jetR) = { p }
              /\ CountIn(counts', "count2_R", r) - Count2(r)
                   <= Cardinality(unique_h)
              /\ hists'[attr[response]].fills - hists[attr[response]].fills
                   = Len(NewRows(r)) ]_vars

\* A triple in the tree of an event that also has a ch jet whose
\* hadron-level jet lies between jetR/2 and jetR away
C26_Witness ==
  /\ level = None
  /\ py_pc = "MPIoff"
  /\ \E r \in DOMAIN config.jetR : Tree(r) # << >>
  /\ \E r \in DOMAIN config.jetR :
       LET jetR == config.jetR[r]
           jets_ch == find_jets(event.ch, jetR)
           jets_h == find_jets(event.h, jetR)
       IN  \E c \in DOMAIN jets_ch, h \in DOMAIN jets_h :
             /\ delta_R2(jets_ch[c], jets_h[h]) < Tenths(jetR) * Tenths(jetR)
             /\ Within(jets_ch[c], jets_h, jetR) = { }

\* The fills of the histogram the attribute Name(prefix, lab) holds
Fills(prefix, lab) == hists[attr[Name(prefix, lab)]].fills

\* The labels of the configured (jetR, beta) pairs
Labels_py ==
  { label(config.jetR[r], config.betas[b]) :
      r \in DOMAIN config.jetR, b \in DOMAIN config.betas }

\* Quotients that are guarded: by an added 1e-11, or by skipping the fill
\* when the denominator is zero
Guarded == { "lp + 1e-11", "lch + 1e-11", "lp", "jp.pt()" }

----------------------------------------------------------------------------
CallsOf(MPIon) ==
  LET mine == SelectSeq(calls, LAMBDA c : c.MPIon = MPIon)
  IN  [ i \in DOMAIN mine |-> mine[i].iev ]

\* The accepted-event counter and the event count moved on by one, together
\* with one call of find_jets_fill_trees
CountedOne(MPIon) ==
  /\ calls' = Append(calls, [ MPIon |-> MPIon, iev |-> iev ])
  /\ iev' = iev + 1
  /\ hNevents' = (IF MPIon THEN hNevents ELSE hNevents + 1)
  /\ hNeventsMPI' = (IF MPIon THEN hNeventsMPI + 1 ELSE hNeventsMPI)

\* calculate_events moves its counters only by accepting an event
C25_CountersMoveTogether ==
  [][ (py_pc = "MPIoff" \/ py_pc = "MPIon") =>
        \/ CountedOne(py_pc = "MPIon") /\ rejected' = rejected
        \/ /\ UNCHANGED << calls, hNevents, hNeventsMPI >>
           /\ iev' = iev \/ (py_pc = "MPIoff" /\ py_pc' = "MPIon" /\ iev' = 0)
        \/ py_pc' = "crashed" ]_vars

\* find_jets_fill_trees is called with iev = 0, 1, ... in each pass, never
\* more than nev times
C25_ConsecutiveCalls ==
  \A MPIon \in BOOLEAN :
    /\ Len(CallsOf(MPIon)) <= nev
    /\ \A i \in DOMAIN CallsOf(MPIon) : CallsOf(MPIon)[i] = i - 1

----------------------------------------------------------------------------
(* C25: calculate_events ends with its accepted-event counter at exactly   *)
(* nev, in the MPI-off and in the MPI-on pass, whenever the generator goes *)
(* on yielding events that pass generation and hadronization.  The counter *)
(* and iev go up by one together, only for such events, each of which      *)
(* brings one call of find_jets_fill_trees, with iev = 0 .. nev - 1; the   *)
(* MPI-off and the MPI-on pass count in separate histograms.               *)
C25_TerminatesWithNevAccepted ==
  /\ C25_CountersMoveTogether
  /\ []C25_ConsecutiveCalls
  /\ (py_pc = "MPIoff") ~> (/\ hNevents = nev
                            /\ iev = nev
                            /\ CallsOf(FALSE) = [ i \in 1..nev |-> i - 1 ])
  /\ (py_pc = "MPIon") ~> (/\ hNeventsMPI = nev
                           /\ iev = nev
                           /\ CallsOf(TRUE) = [ i \in 1..nev |-> i - 1 ])

\* The part of C25 about the MPI-off pass
C25_MPIoffTerminates ==
  (py_pc = "MPIoff") ~> (/\ hNevents = nev
                         /\ iev = nev
                         /\ CallsOf(FALSE) = [ i \in 1..nev |-> i - 1 ])

\* The histograms of the MPI-on pass, by their place in hists
IsMPIon(i) == Head(hists[i].name) = "hAng_JetPt_ch_MPIon_"

----------------------------------------------------------------------------
(* C27: no histogram is scaled before both event loops have ended.  A run  *)
(* without --no-scale that ends has scaled every histogram appended to a   *)
(* hist_list_R* exactly once, by the MPI-off factor, and every             *)
(* hAng_JetPt_ch_MPIon_* histogram exactly once, by the MPI-on factor; a   *)
(* run with --no-scale scales nothing.                                     *)
C27_ScaledOnceAfterLoops ==
  /\ (py_pc \in { "config", "MPIoff", "MPIon" } \/ no_scale) =>
       \A i \in DOMAIN hists : hists[i].scaled = << >>
  /\ (py_pc = "done" /\ ~no_scale) =>
       \A i \in DOMAIN hists :
         hists[i].scaled = (IF IsMPIon(i) THEN << "MPI_scale_f" >>
                            ELSE << "scale_f" >>)

----------------------------------------------------------------------------
(* C28: whatever the no-match level (None, 'p', 'h' or 'ch'), every        *)
(* histogram looked up by its constructed name while filling or scaling    *)
(* was made by initialize_hist for that level: no run ends on a missing    *)
(* histogram attribute.                                                    *)
C28_NoMissingHistogram ==
  /\ missing # << >> => Head(missing) # "AttributeError"
  /\ py_pc \in { "MPIoff", "MPIon", "done" } =>
       \A r \in DOMAIN config.jetR, b \in DOMAIN config.betas :
         Name("hAng_JetPt_ch_MPIon_", label(config.jetR[r], config.betas[b]))
           \in DOMAIN attr

----------------------------------------------------------------------------
(* C29: the names built at run time are injective.  Jet radii of distinct  *)
(* value give distinct 'R<radius without dot>' names, and (jetR, beta)     *)
(* pairs of distinct value give distinct 'R<radius>_<beta>Scaled' labels,  *)
(* so that no histogram made by initialize_hist has the name of another.   *)
C29_NamesInjective ==
  /\ \A r1, r2 \in DOMAIN config.jetR :
       Tenths(config.jetR[r1]) # Tenths(config.jetR[r2]) =>
         jetR_str(config.jetR[r1]) # jetR_str(config.jetR[r2])
  /\ \A r1, r2 \in DOMAIN config.jetR, b1, b2 \in DOMAIN config.betas :
       (\/ Tenths(config.jetR[r1]) # Tenths(config.jetR[r2])
        \/ Tenths(config.betas[b1]) # Tenths(config.betas[b2])) =>
         label(config.jetR[r1], config.betas[b1])
           # label(config.jetR[r2], config.betas[b2])
  /\ \A i, j \in DOMAIN hists : i # j => hists[i].name # hists[j].name

----------------------------------------------------------------------------
(* analysis_utils_obs.py: get_reg_param *)

\* Bound of the calls of get_reg_param
MaxSubconfigs == 2

\* A string of the configuration
PyStr(s) == [ kind |-> "str", s |-> s ]

\* None, and a list, of the configuration
PyNone == [ kind |-> "None" ]
PyList(items) == [ kind |-> "list", items |-> items ]

\* bool(x) of Python
Truthy(x) ==
  CASE x.kind = "None" -> FALSE
    [] x.kind = "list" -> x.items # << >>
    [] x.kind = "str" -> x.s # ""
    [] OTHER -> x.n # 0

\* What a call gives back
Return(v) == [ kind |-> "return", value |-> v ]
Raise(e) == [ kind |-> "raise", error |-> e ]

\* '{}'.format(x) for a number or a string
format(x) == IF x.kind = "str" THEN << x.s >> ELSE str(x)

\* AnalysisUtils.sd_label(sd_setting), sd_setting = [zcut, beta]
sd_label(sd_setting) ==
  << "zcut" >> \o replace_dot(str(sd_setting.items[1]))
  \o << "_B" >> \o str(sd_setting.items[2])

\* obs_label, lines 101-108
obs_label(obs_setting, sd_setting) ==
  (IF Truthy(obs_setting) THEN format(obs_setting) ELSE << >>)
  \o (IF Truthy(sd_setting) THEN sd_label(sd_setting) ELSE << >>)

\* obs_config_dict[config_name]['reg_param'][jetR]
RegParamOf(a, i) ==
  LET reg == a.obs_config_dict[a.obs_subconfig_list[i]].reg_param
  IN  IF a.jetR \in DOMAIN reg THEN Return(reg[a.jetR]) ELSE Raise("KeyError")

\* Variant: the loop goes on after a match and returns the last one
RECURSIVE get_reg_param_LastMatch(_, _)
get_reg_param_LastMatch(a, i) ==
  IF i > Len(a.obs_subconfig_list) THEN PyNone
  ELSE LET later == get_reg_param_LastMatch(a, i + 1)
       IN  IF later # PyNone THEN later
           ELSE IF obs_label(a.obs_settings[i], a.sd_settings[i]) = a.obs_label
           THEN RegParamOf(a, i)
           ELSE PyNone

\* get_reg_param, lines 149-165, from the i-th subconfiguration on
RECURSIVE get_reg_param(_, _)
get_reg_param(a, i) ==
  IF i > Len(a.obs_subconfig_list) THEN PyNone
  ELSE IF obs_label(a.obs_settings[i], a.sd_settings[i]) = a.obs_label
  THEN RegParamOf(a, i)
  ELSE get_reg_param(a, i + 1)

\* The subconfigurations of an observable block: name, observable setting,
\* Soft Drop setting, and regularization parameter per jetR (in tenths)
Subconfigs ==
  { [ name |-> "config1", obs |-> PyNone, sd |-> PyList(<< PyFloat(1), PyInt(0) >>),
      reg_param |-> (2 :> 3 @@ 4 :> 4) ],
    [ name |-> "config2", obs |-> PyFloat(0), sd |-> PyList(<< PyFloat(1), PyInt(0) >>),
      reg_param |-> (2 :> 5 @@ 4 :> 6) ],
    [ name |-> "config3", obs |-> PyFloat(1), sd |-> PyNone,
      reg_param |-> (2 :> 7) ],
    [ name |-> "config4", obs |-> PyStr("Standard_WTA"),
      sd |-> PyList(<< PyFloat(2), PyInt(1) >>), reg_param |-> (2 :> 8 @@ 4 :> 9) ],
    [ name |-> "config5", obs |-> PyNone, sd |-> PyNone,
      reg_param |-> (2 :> 10 @@ 4 :> 11) ] }

\* The arguments of a call: the three lists are made from the same
\* observable block
ArgsOf(subs, lab, jetR) ==
  [ obs_settings |-> [ i \in DOMAIN subs |-> subs[i].obs ],
    sd_settings |-> [ i \in DOMAIN subs |-> subs[i].sd ],
    obs_subconfig_list |-> [ i \in DOMAIN subs |-> subs[i].name ],
    obs_config_dict |->
      [ n \in { subs[i].name : i \in DOMAIN subs } |->
          [ reg_param |->
              (CHOOSE c \in Subconfigs : c.name = n).reg_param ] ],
    obs_label |-> lab,
    jetR |-> jetR ]

InitRegParam ==
  /\ \E subs \in SeqsUpTo(Subconfigs, MaxSubconfigs),
        c \in Subconfigs \cup { [ obs |-> PyFloat(3), sd |-> PyNone ] },
        jetR \in { 2, 4 } :
       reg_args = ArgsOf(subs, obs_label(c.obs, c.sd), jetR)
  /\ reg_param = [ kind |-> "pending" ]
  /\ NoPythiaRun
  /\ NoProcessRun

\* get_reg_param, lines 149-165
get_reg_param_call ==
  /\ reg_param = [ kind |-> "pending" ]
  /\ reg_param' = get_reg_param(reg_args, 1)
  /\ UNCHANGED << reg_args, py_vars, thermal_model, df_fjparticles, pc, cfg,
                  fj_particles_hard, fj_particles_combined_beforeCS,
                  fj_particles_combined, jets_combined_selected,
                  jets_hard_selected, info_combined, info_hard, jet_variables,
                  four_vectors, jet_qa_variables, delta_pt_random_cone,
                  written, input_file, hf, load_event_calls, skipped,
                  config_K, grid >>

NextRegParam == get_reg_param_call

SpecRegParam == InitRegParam /\ [][NextRegParam]_vars

\* The subconfigurations whose label is the one asked for
Matching(a) ==
  { i \in DOMAIN a.obs_subconfig_list :
      obs_label(a.obs_settings[i], a.sd_settings[i]) = a.obs_label }

----------------------------------------------------------------------------
(* C30: get_reg_param returns the regularization parameter, for the given  *)
(* jetR, of the first subconfiguration in list order whose label, built    *)
(* from its observable setting and its Soft Drop setting, is the obs_label *)
(* asked for; when no label matches it returns None and raises nothing.    *)
C30_FirstMatchingSubconfig ==
  reg_param.kind \in { "return", "raise", "None" } =>
    LET a == reg_args
        first == CHOOSE i \in Matching(a) : \A j \in Matching(a) : i <= j
        reg == a.obs_config_dict[a.obs_subconfig_list[first]].reg_param
    IN  IF Matching(a) = { } THEN reg_param = PyNone
        ELSE a.jetR \in DOMAIN reg => reg_param = Return(reg[a.jetR])

\* Two subconfigurations have the label asked for, the second with another
\* regularization parameter, and the call returned the first one's
C30_Witness ==
  /\ reg_param.kind = "return"
  /\ \E i, j \in Matching(reg_args) :
       /\ i < j
       /\ reg_args.obs_config_dict[reg_args.obs_subconfig_list[i]]
            # reg_args.obs_config_dict[reg_args.obs_subconfig_list[j]]

====
